---- MODULE Spec2Model ----
(***************************************************************************)
(* Model of the plakar snapshot pipeline: the backup orchestrator          *)
(* (snapshot/backup.go: importerJob, Backup, chunkify, PutPackfile,        *)
(* Commit), the scan cache (caching/scan.go) and the repository state     *)
(* (repository/state).                                                     *)
(*                                                                         *)
(* Byte strings (paths, file contents, serialized records, MACs) are      *)
(* sequences of byte values.  Paths use their ASCII codes: 47 is '/',      *)
(* 97 'a', 98 'b', 99 'c', 120 'x'.  A MAC is modelled by the ideal        *)
(* injective function of the bytes it is computed over.                    *)
(***************************************************************************)
EXTENDS Integers, Sequences, FiniteSets, TLC

(***************************************************************************)
(* Bounds                                                                  *)
(***************************************************************************)
\* size of the semaphore backupCtx.maxConcurrency
MaxConcurrency == 2
\* capacity of filesChannel (1000 in the source, reduced here)
FilesChannelCap == 2
\* repository Configuration().Chunking.MinSize
MinSize == 2
\* longest file content of the single-file specification
MaxLen == 4

\* number of distinct blob checksums given to the state
NumBlobs == 1
\* latest timestamp of a state
MaxTimestamp == 2
\* number of state identifiers
NumStates == 2
\* most snapshots given to the check command
MaxSnapshots == 2
\* most blobs in one packfile
MaxBlobs == 3
\* root-path errors in one scan stream
NumRootErrors == 2
\* len(objects.Checksum{}) (32 in the source, reduced here)
ChecksumSize == 2
\* len(uuid.UUID{}) (16 in the source, reduced here)
UUIDSize == 2

\* repository Configuration().Chunking.MaxSize
MaxSize == MinSize + 1

(***************************************************************************)
(* Byte strings and paths                                                  *)
(***************************************************************************)
RECURSIVE Compare(_, _)
\* strings.Compare / the bytewise comparator of the key-value store:
\* -1, 0 or 1
Compare(s, t) ==
    IF s = <<>> /\ t = <<>> THEN 0
    ELSE IF s = <<>> THEN -1
    ELSE IF t = <<>> THEN 1
    ELSE IF Head(s) < Head(t) THEN -1
    ELSE IF Head(s) > Head(t) THEN 1
    ELSE Compare(Tail(s), Tail(t))

\* strings.HasPrefix
HasPrefix(s, p) == Len(p) <= Len(s) /\ SubSeq(s, 1, Len(p)) = p

\* strings.Contains(s, "/")
ContainsSlash(s) == \E i \in DOMAIN s : s[i] = 47

\* strings.TrimPrefix, for a prefix known to match
TrimPrefix(s, p) == SubSeq(s, Len(p) + 1, Len(s))

RECURSIVE SortAsc(_)
\* the keys of a set in ascending bytewise order
SortAsc(S) ==
    IF S = {} THEN <<>>
    ELSE LET m == CHOOSE x \in S : \A y \in S : Compare(x, y) <= 0
         IN <<m>> \o SortAsc(S \ {m})

RECURSIVE Reverse(_)
Reverse(s) == IF s = <<>> THEN <<>> ELSE Reverse(Tail(s)) \o <<Head(s)>>

RECURSIVE Concat(_)
\* concatenation of a sequence of byte strings
Concat(ss) == IF ss = <<>> THEN <<>> ELSE Head(ss) \o Concat(Tail(ss))

RECURSIVE SumSeq(_)
SumSeq(ns) == IF ns = <<>> THEN 0 ELSE Head(ns) + SumSeq(Tail(ns))

\* the candidate paths of the source tree
PRoot == <<47>>
PA    == <<47, 97>>
PAB   == <<47, 97, 47, 98>>
PABX  == <<47, 97, 47, 98, 47, 120>>
PAC   == <<47, 97, 47, 99>>
PAD   == <<47, 97, 47, 100>>
PAE   == <<47, 97, 47, 101>>
PAF   == <<47, 97, 47, 102>>

\* the directory of a repository outside the source tree
PRepo == <<47, 114>>

DirPaths  == {PRoot, PA, PAB}
FilePaths == {PABX, PAC}
Paths     == DirPaths \cup FilePaths

\* three more files of /a, for the trees with many files
ExtraFilePaths == {PAD, PAE, PAF}

\* the paths a per-file goroutine can be started for
TaskPaths == FilePaths \cup ExtraFilePaths

\* the order in which the importer walks the tree
WalkOrder == <<PRoot, PA, PAB, PABX, PAC, PAD, PAE, PAF>>

(***************************************************************************)
(* Records of the importer, objects and VFS entries                        *)
(***************************************************************************)
\* position of a path in the walk, used as its inode number
Ino(p) == CHOOSE i \in DOMAIN WalkOrder : WalkOrder[i] = p

\* objects.FileInfo of a node of the source tree
FileInfoOf(p, n) ==
    [Lmode    |-> IF n.st = "dir" THEN "dir"
                  ELSE IF n.st = "symlink" THEN "symlink" ELSE "regular",
     Lsize    |-> IF n.st = "dir" THEN 0 ELSE Len(n.content),
     LmodTime |-> n.mtime,
     Ldev     |-> 1,
     Lino     |-> Ino(p)]

\* FileInfo.Equal: mode, size, mtime, device and inode all equal
FileInfoEqual(a, b) ==
    /\ a.Lmode = b.Lmode
    /\ a.Lsize = b.Lsize
    /\ a.LmodTime = b.LmodTime
    /\ a.Ldev = b.Ldev
    /\ a.Lino = b.Lino

\* importer.ScanResult: a ScanRecord or a ScanError, whose Err is named after
\* its path
ScanResultOf(p, n) ==
    [type     |-> IF n.st = "err" THEN "error" ELSE "record",
     Pathname |-> p,
     FileInfo |-> FileInfoOf(p, n),
     Err      |-> p]

RECURSIVE ScanFrom(_, _)
\* the stream delivered by imp.Scan() for a source tree: the nodes that
\* exist, in walk order, from position i on
ScanFrom(tree, i) ==
    IF i > Len(WalkOrder) THEN <<>>
    ELSE LET p == WalkOrder[i]
         IN (IF tree[p].st = "absent" THEN <<>> ELSE <<ScanResultOf(p, tree[p])>>)
            \o ScanFrom(tree, i + 1)

ScanStream(tree) == ScanFrom(tree, 1)

\* repository.ComputeMAC and the MAC hasher: injective on byte strings
ComputeMAC(data) == data

\* objects.NewChunk with the fields chunkify sets
NewChunk(data) == [ContentMAC |-> ComputeMAC(data), Length |-> Len(data)]

RECURSIVE SerializeChunks(_)
SerializeChunks(cs) ==
    IF cs = <<>> THEN <<>>
    ELSE <<Head(cs).Length, Len(Head(cs).ContentMAC)>> \o Head(cs).ContentMAC
         \o SerializeChunks(Tail(cs))

\* Object.Serialize: length-prefixed fields, as msgpack frames them
SerializeObject(o) ==
    <<Len(o.ContentMAC)>> \o o.ContentMAC \o <<Len(o.Chunks)>> \o SerializeChunks(o.Chunks)

\* vfs.NewEntry for a scan record; Object is <<>> (unset) or <<mac>>
NewEntry(record) ==
    [Path |-> record.Pathname, FileInfo |-> record.FileInfo, Object |-> <<>>]

\* Entry.ToBytes
EntryToBytes(e) ==
    <<Len(e.Path)>> \o e.Path
    \o <<(IF e.FileInfo.Lmode = "dir" THEN 1
          ELSE IF e.FileInfo.Lmode = "symlink" THEN 2 ELSE 0), e.FileInfo.Lsize,
         e.FileInfo.LmodTime, e.FileInfo.Ldev, e.FileInfo.Lino>>
    \o <<Len(e.Object)>> \o Concat(e.Object)

\* vfs.NewErrorItem(path, message).ToBytes
ErrorToBytes(path) == <<Len(path)>> \o path

\* the zero vfs.Summary
NewSummary ==
    [Children |-> 0, Files |-> 0, BelowFiles |-> 0, BelowDirectories |-> 0,
     BelowErrors |-> 0]

\* Summary.UpdateWithFileSummary: a direct child file
UpdateWithFileSummary(s, fs) == [s EXCEPT !.Files = @ + 1]

\* Summary.UpdateBelow: a direct child directory and all that is below it
UpdateBelow(s, c) ==
    [s EXCEPT !.BelowFiles = @ + c.BelowFiles + c.Files,
              !.BelowDirectories = @ + c.BelowDirectories + 1,
              !.BelowErrors = @ + c.BelowErrors]

(***************************************************************************)
(* Chunker                                                                 *)
(***************************************************************************)
\* Length of the next chunk the content-defined chunker cuts from data: the
\* first boundary (a byte 1) at or after MinSize, at most MaxSize, or what
\* is left of the stream.
NextCut(data) ==
    IF Len(data) <= MinSize THEN Len(data)
    ELSE LET top == IF Len(data) < MaxSize THEN Len(data) ELSE MaxSize
             cuts == {n \in MinSize..top : n = top \/ data[n] = 1}
         IN CHOOSE n \in cuts : \A m \in cuts : n <= m

(***************************************************************************)
(* State                                                                   *)
(***************************************************************************)
VARIABLES
    src,            \* the source tree behind the importer: path -> node
    second,         \* TRUE during the second backup of the same origin
    firstOk,        \* the first backup committed its snapshot
    unchanged,      \* the tree of the second backup equals that of the first
    ctxDone,        \* snap.AppContext().GetContext() is cancelled
    scan,           \* the stream returned by imp.Scan()
    scanPos,        \* next element of scan the importer goroutine reads
    impPc,          \* importer goroutine: "loop", "wait", "done"
    dispatch,       \* indices of scan handled by running dispatch goroutines
    filesChannel,   \* paths of the records queued in filesChannel
    chanClosed,     \* filesChannel is closed
    sem,            \* number of tokens in backupCtx.maxConcurrency
    mainPc,         \* position of Backup
    held,           \* record Backup received and has not yet spawned
    result,         \* what Backup returned
    aborted,        \* backupCtx.aborted
    abortedReason,  \* backupCtx.abortedReason
    ftask,          \* per-file goroutines of the scanner: path -> task
    scDirs,         \* scan cache, __directory__: path -> entry
    scFiles,        \* scan cache, __file__: path -> entry
    scSummaries,    \* scan cache, __summary__: path -> summary
    erridx,         \* backupCtx.erridx: the names of the ErrorItems
    fileidx,        \* the __path__ index built by the roll-up
    dirQueue,       \* directories the roll-up iterator has yet to yield
    rollSeen,       \* per rolled-up directory, the child summaries it read
    rootSummary,    \* <<>> or <<summary of "/">>
    vfsFilenames,   \* VFS cache: path -> entry
    vfsObjects,     \* VFS cache: object MAC -> object
    vfsSummaries,   \* VFS cache: path -> file summary
    pending,        \* blobs in the packer's current packfile
    deltaState,     \* snap.deltaState: (kind, mac) with a location
    puts,           \* number of PutBlob calls per (kind, mac), this backup
    aggregate,      \* the repository's aggregate state: (kind, mac)
    repoStates,     \* identifiers of the states put to the repository
    snapID,         \* snap.Header.Identifier
    repoLocation,   \* snap.repository.Location()
    excludes,       \* options.Excludes: the patterns of the globs
    maxConcurrency, \* options.MaxConcurrency: the capacity of the semaphore
    lsMetadata,     \* a LocalState ls: ls.Metadata
    lsDeltas,       \* ls.cache under "__delta__:": key -> serialized entry
    lsStates,       \* ls.cache under "__state__:": state id -> metadata
    packer,         \* a Packer: the blobs added to its packfile, in order
    call,           \* the last call on ls or on the packfile, and its result
    config,         \* a storage.Configuration, the receiver of InitFromBytes
    checksum,       \* an objects.Checksum, the receiver of UnmarshalJSON
    check,          \* a run of the check command: its snapshots and locals
    store,          \* a call of Snapshot.PutPackfile, the storage and snap.deltaState
    rpc,            \* a command sent to the agent: client, connection and handler
    agent,          \* an Agent: its listener, accept loop, handlers and Shutdown
    cli             \* a run of entryPoint on a repository: passphrase and command

treeVars  == <<src, second, firstOk, unchanged, ctxDone>>
impVars   == <<scan, scanPos, impPc, dispatch>>
mainVars  == <<mainPc, held, result>>
abortVars == <<aborted, abortedReason>>
scVars    == <<scDirs, scFiles, scSummaries>>
rollVars  == <<fileidx, dirQueue, rollSeen, rootSummary>>
vfsVars   == <<vfsFilenames, vfsObjects, vfsSummaries>>
packVars  == <<pending, deltaState, puts>>
repoVars  == <<aggregate, repoStates>>
optVars   == <<repoLocation, excludes, maxConcurrency>>
lsVars    == <<lsMetadata, lsDeltas, lsStates>>
svcVars   == <<rpc, agent, cli>>
sysVars   == <<store, svcVars>>
objVars   == <<config, checksum, check, sysVars>>
libVars   == <<lsVars, packer, call, objVars>>
backupVars == <<treeVars, impVars, filesChannel, chanClosed, sem, mainVars,
                abortVars, ftask, scVars, erridx, rollVars, vfsVars, packVars,
                repoVars, snapID, optVars>>

vars == <<backupVars, libVars>>

\* a map with no key
EmptyMap == [k \in {} |-> 0]

\* m with key k set to v
MapPut(m, k, v) == [x \in DOMAIN m \cup {k} |-> IF x = k THEN v ELSE m[x]]

(***************************************************************************)
(* Repository state (repository/state): delta entries, metadata and their *)
(* serialized form                                                         *)
(***************************************************************************)
\* const VERSION
VERSION == 100

\* EntryType
ET_METADATA == 1
ET_LOCATIONS == 2
ET_TIMESTAMP == 3

LocationSerializedSize == ChecksumSize + 4 + 4
DeltaEntrySerializedSize == 1 + ChecksumSize + LocationSerializedSize

\* the first n bytes of s, fewer when s is shorter
Take(s, n) == SubSeq(s, 1, IF n < Len(s) THEN n ELSE Len(s))

\* s without its first n bytes
Drop(s, n) == SubSeq(s, n + 1, Len(s))

RECURSIVE PutUint(_, _)
\* binary.LittleEndian.PutUint32 / PutUint64: the n low bytes of v, v >= 0
PutUint(v, n) ==
    IF n = 0 THEN <<>> ELSE <<v % 256>> \o PutUint(v \div 256, n - 1)

RECURSIVE Uint(_)
\* binary.LittleEndian.Uint32 / Uint64 of the bytes b
Uint(b) == IF b = <<>> THEN 0 ELSE Head(b) + 256 * Uint(Tail(b))

\* uint64(t) for an int64 t, as its 8 little-endian bytes: a negative t is
\* in two's complement
PutInt64(t) ==
    IF t >= 0 THEN PutUint(t, 8)
    ELSE [i \in 1..8 |-> 255 - PutUint(-t - 1, 8)[i]]

\* int64(binary.LittleEndian.Uint64(b))
Int64(b) ==
    IF b[8] < 128 THEN Uint(b)
    ELSE -(Uint([i \in 1..8 |-> 255 - b[i]])) - 1

\* the checksum whose bytes all equal k
Checksum(k) == [i \in 1..ChecksumSize |-> k]

\* the UUID whose bytes all equal k; UUID(0) is the zero value
UUID(k) == [i \in 1..UUIDSize |-> k]

\* DeltaEntry.ToBytes
DeltaEntryToBytes(de) ==
    <<de.Type % 256>> \o de.Blob \o de.Location.Packfile
        \o PutUint(de.Location.Offset, 4) \o PutUint(de.Location.Length, 4)

\* DeltaEntryFromBytes on a buffer of DeltaEntrySerializedSize bytes
DeltaEntryFromBytes(buf) ==
    [Type |-> buf[1],
     Blob |-> SubSeq(buf, 2, 1 + ChecksumSize),
     Location |->
        [Packfile |-> SubSeq(buf, 2 + ChecksumSize, 1 + 2 * ChecksumSize),
         Offset |-> Uint(SubSeq(buf, 2 + 2 * ChecksumSize, 5 + 2 * ChecksumSize)),
         Length |-> Uint(SubSeq(buf, 6 + 2 * ChecksumSize, 9 + 2 * ChecksumSize))]]

\* Faulty variant of HexDigit: upper case.
HexDigitUpper(d) == IF d < 10 THEN 48 + d ELSE 65 + (d - 10)

\* one digit of fmt.Sprintf("%0x", ...)
HexDigit(d) == IF d < 10 THEN 48 + d ELSE 97 + (d - 10)

RECURSIVE EncodeToString(_)
\* fmt.Sprintf("%0x", m[:]): two digits per byte
EncodeToString(m) ==
    IF m = <<>> THEN <<>>
    ELSE <<HexDigit(Head(m) \div 16), HexDigit(Head(m) % 16)>> \o EncodeToString(Tail(m))

RECURSIVE Itoa(_)
\* fmt.Sprintf("%d", n) for n >= 0: the decimal digits
Itoa(n) == IF n < 10 THEN <<48 + n>> ELSE Itoa(n \div 10) \o <<48 + (n % 10)>>

\* the key of a delta in the "__delta__" namespace of the cache:
\* fmt.Sprintf("%d:%x", blobType, blobCsum)
DeltaKey(Type, csum) == Itoa(Type) \o <<58>> \o EncodeToString(csum)

\* the Metadata of NewLocalState at time now
NewLocalState(now) ==
    [Version |-> VERSION, Timestamp |-> now, Aggregate |-> FALSE,
     Serial |-> UUID(0)]

\* the Metadata of &LocalState{}; its zero time.Time is written as 0 and is
\* never returned, FromStream gives nil when the stream does not replace it
ZeroMetadata ==
    [Version |-> 0, Timestamp |-> 0, Aggregate |-> FALSE, Serial |-> UUID(0)]

\* Metadata.ToBytes
MetadataToBytes(mt) == <<mt.Version, mt.Timestamp, mt.Aggregate, mt.Serial>>

\* MetadataFromBytes
MetadataFromBytes(data) ==
    [Version |-> data[1], Timestamp |-> data[2], Aggregate |-> data[3],
     Serial |-> data[4]]

\* ScanCache.GetDeltas: the keys under "__delta__:" in the store's order
GetDeltas(deltas) == SortAsc(DOMAIN deltas)

RECURSIVE WriteEntries(_, _, _)
\* one tag byte and one serialized entry per key
WriteEntries(tag, keys, deltas) ==
    IF keys = <<>> THEN <<>>
    ELSE <<tag>> \o deltas[Head(keys)] \o WriteEntries(tag, Tail(keys), deltas)

\* Faulty variant of WriteMetadata: the serial is written before the
\* aggregate flag.
WriteMetadataSerialFirst(mt) ==
    <<ET_METADATA>> \o PutUint(mt.Version, 4) \o PutInt64(mt.Timestamp)
        \o mt.Serial \o <<IF mt.Aggregate THEN 1 ELSE 0>>

\* the METADATA tag and the fixed-width metadata that end a stream
WriteMetadata(mt) ==
    <<ET_METADATA>> \o PutUint(mt.Version, 4) \o PutInt64(mt.Timestamp)
        \o <<IF mt.Aggregate THEN 1 ELSE 0>> \o mt.Serial

\* a stream laid out as SerializeToStream lays it out, its entries under tag
StreamOf(tag, mt, deltas) ==
    WriteEntries(tag, GetDeltas(deltas), deltas) \o WriteMetadata(mt)

\* LocalState.SerializeToStream
SerializeToStream(mt, deltas) == StreamOf(ET_LOCATIONS, mt, deltas)

\* ScanCache.PutDelta
CachePutDelta(deltas, Type, csum, data) == MapPut(deltas, DeltaKey(Type, csum), data)

RECURSIVE ReadLocations(_, _)
\* the first loop of deserializeFromStream over the bytes r; rest is what
\* follows the METADATA tag
ReadLocations(r, deltas) ==
    IF r = <<>>
    THEN [err |-> TRUE, rest |-> <<>>, deltas |-> deltas]
    ELSE IF Head(r) = ET_METADATA
    THEN [err |-> FALSE, rest |-> Tail(r), deltas |-> deltas]
    ELSE IF Len(Tail(r)) < DeltaEntrySerializedSize
    THEN [err |-> TRUE, rest |-> <<>>, deltas |-> deltas]
    ELSE LET de_buf == Take(Tail(r), DeltaEntrySerializedSize)
             delta  == DeltaEntryFromBytes(de_buf)
         IN ReadLocations(Drop(Tail(r), DeltaEntrySerializedSize),
                          CachePutDelta(deltas, delta.Type, delta.Blob, de_buf))

\* the second part of deserializeFromStream: each field is assigned as soon
\* as it is read, so a short stream leaves the later fields as they were
ReadMetadata(r, mt) ==
    IF Len(r) < 4 THEN [err |-> TRUE, Metadata |-> mt]
    ELSE LET m1 == [mt EXCEPT !.Version = Uint(Take(r, 4))]
             r1 == Drop(r, 4)
         IN IF Len(r1) < 8 THEN [err |-> TRUE, Metadata |-> m1]
            ELSE LET m2 == [m1 EXCEPT !.Timestamp = Int64(Take(r1, 8))]
                     r2 == Drop(r1, 8)
                 IN IF Len(r2) < 1 THEN [err |-> TRUE, Metadata |-> m2]
                    ELSE LET m3 == [m2 EXCEPT !.Aggregate = (r2[1] = 1)]
                             r3 == Drop(r2, 1)
                         IN IF Len(r3) < UUIDSize
                            THEN [err |-> TRUE, Metadata |-> m3]
                            ELSE [err |-> FALSE,
                                  Metadata |->
                                    [m3 EXCEPT !.Serial = Take(r3, UUIDSize)]]

\* LocalState.deserializeFromStream on a state with metadata mt and the
\* cache content deltas
deserializeFromStream(r, mt, deltas) ==
    LET loc == ReadLocations(r, deltas) IN
    IF loc.err
    THEN [err |-> TRUE, Metadata |-> mt, deltas |-> loc.deltas]
    ELSE LET m == ReadMetadata(loc.rest, mt) IN
         [err |-> m.err, Metadata |-> m.Metadata, deltas |-> loc.deltas]

\* FromStream(rd, cache): st is <<>> for nil
FromStream(rd, deltas) ==
    LET d == deserializeFromStream(rd, ZeroMetadata, deltas) IN
    [err |-> d.err,
     st |-> IF d.err THEN <<>> ELSE <<d.Metadata>>,
     deltas |-> d.deltas]

\* Faulty variant of PutDelta: an entry is stored only when its blob has
\* none yet, a second write of the same triple removes it.
PutDeltaToggle(deltas, de) ==
    IF DeltaKey(de.Type, de.Blob) \in DOMAIN deltas
    THEN [k \in DOMAIN deltas \ {DeltaKey(de.Type, de.Blob)} |-> deltas[k]]
    ELSE CachePutDelta(deltas, de.Type, de.Blob, DeltaEntryToBytes(de))

\* LocalState.PutDelta
PutDelta(deltas, de) == CachePutDelta(deltas, de.Type, de.Blob, DeltaEntryToBytes(de))

\* LocalState.BlobExists
HasDelta(deltas, Type, csum) == DeltaKey(Type, csum) \in DOMAIN deltas

\* the result of GetSubpartForBlob for a blob without a delta
NotPresent ==
    [Packfile |-> Checksum(0), Offset |-> 0, Length |-> 0, found |-> FALSE]

\* Faulty variant of GetSubpartForBlob: the missing delta is decoded as if it
\* were an entry of zero bytes.
GetSubpartForBlobDecodesNil(deltas, Type, csum) ==
    IF DeltaKey(Type, csum) \in DOMAIN deltas
    THEN LET de == DeltaEntryFromBytes(deltas[DeltaKey(Type, csum)]) IN
         [Packfile |-> de.Location.Packfile, Offset |-> de.Location.Offset,
          Length |-> de.Location.Length, found |-> TRUE]
    ELSE [NotPresent EXCEPT !.found = TRUE]

\* LocalState.GetSubpartForBlob
GetSubpartForBlob(deltas, Type, csum) ==
    IF DeltaKey(Type, csum) \notin DOMAIN deltas
    THEN NotPresent
    ELSE LET de == DeltaEntryFromBytes(deltas[DeltaKey(Type, csum)]) IN
         [Packfile |-> de.Location.Packfile, Offset |-> de.Location.Offset,
          Length |-> de.Location.Length, found |-> TRUE]

\* Faulty variant of Before: the comparison is reversed.
After(a, b) == a > b

\* time.Time.Before
Before(a, b) == a < b

RECURSIVE LatestMetadata(_, _, _)
\* the loop of UpdateSerialOr over the states in the order ids: latestMT,
\* <<>> for nil
LatestMetadata(ids, states, latestMT) ==
    IF ids = <<>> THEN latestMT
    ELSE LET mt == MetadataFromBytes(states[Head(ids)]) IN
         LatestMetadata(Tail(ids), states,
                        IF latestMT = <<>> \/ Before(latestMT[1].Timestamp, mt.Timestamp)
                        THEN <<mt>> ELSE latestMT)

\* LocalState.UpdateSerialOr: the serial it assigns when the map of the
\* states is ranged over in the order ids
UpdateSerialOr(ids, states, serial) ==
    LET latestMT == LatestMetadata(ids, states, <<>>) IN
    IF latestMT # <<>> THEN latestMT[1].Serial ELSE serial

\* LocalState.Derive at time now
Derive(mt, now) == [NewLocalState(now) EXCEPT !.Serial = mt.Serial]

(***************************************************************************)
(* Source trees                                                            *)
(***************************************************************************)
Absent == [st |-> "absent", content |-> <<>>, mtime |-> 1]
Dir    == [st |-> "dir", content |-> <<>>, mtime |-> 1]
Err    == [st |-> "err", content |-> <<>>, mtime |-> 1]
Unreadable == [st |-> "unreadable", content |-> <<1>>, mtime |-> 1]
File(c)    == [st |-> "file", content |-> c, mtime |-> 1]
\* a symbolic link, its content being the target
Symlink    == [st |-> "symlink", content |-> <<1, 1>>, mtime |-> 1]

\* file contents of the tree specification: empty, and one that the chunker
\* cuts into several chunks
Contents == {<<>>, <<1, 1, 1, 1>>}

RECURSIVE BytesUpTo(_)
\* every byte string over {1, 2} of length at most n
BytesUpTo(n) ==
    IF n = 0 THEN {<<>>}
    ELSE LET shorter == BytesUpTo(n - 1)
         IN shorter \cup {<<b>> \o s : b \in {1, 2}, s \in {t \in shorter : Len(t) = n - 1}}

FileNodes == {Absent, Err, Unreadable} \cup {File(c) : c \in Contents}

\* a tree over the candidate paths, without the further files
Widen(t) ==
    [p \in Paths \cup ExtraFilePaths |-> IF p \in DOMAIN t THEN t[p] ELSE Absent]

\* a tree the importer can walk: children only below directories
WellFormed(t) ==
    /\ t[PRoot].st \in {"dir", "err"}
    /\ t[PA].st \in {"absent", "dir", "err"}
    /\ t[PAB].st \in {"absent", "dir"}
    /\ t[PA].st # "dir" => t[PAB].st = "absent" /\ t[PAC].st = "absent"
    /\ t[PAB].st # "dir" => t[PABX].st = "absent"

Trees ==
    {t \in [Paths -> {Absent, Dir, Err, Unreadable} \cup FileNodes] :
        /\ WellFormed(t)
        /\ \A p \in FilePaths : t[p] \in FileNodes
        /\ \A p \in DirPaths : t[p] \in {Absent, Dir, Err}}

\* one file /a/c of any content up to MaxLen
SingleFileTrees ==
    {[p \in Paths |-> IF p \in {PRoot, PA} THEN Dir
                      ELSE IF p = PAC THEN File(c) ELSE Absent] :
        c \in BytesUpTo(MaxLen)}

(***************************************************************************)
(* Construction                                                            *)
(***************************************************************************)
\* a per-file goroutine that has not been spawned; late tells whether
\* backupCtx.aborted was set when the goroutine was started
IdleTask ==
    [pc |-> "idle", fileEntry |-> <<>>, cachedMAC |-> <<>>, object |-> <<>>,
     objectMAC |-> <<>>, rest |-> <<>>, hasher |-> <<>>, sent |-> <<>>,
     chunked |-> FALSE, late |-> FALSE]

NoResult == [kind |-> "none", err |-> <<>>]

\* no call: the value of call where no operation of the state has run
NoCall == [op |-> "none", arg |-> <<>>, ret |-> <<>>]

\* Backup at its start, whatever the source and the stream of its importer
InitBackup ==
    /\ second = FALSE
    /\ firstOk = FALSE
    /\ unchanged = FALSE
    /\ ctxDone = FALSE
    /\ scanPos = 1
    /\ impPc = "loop"
    /\ dispatch = {}
    /\ filesChannel = <<>>
    /\ chanClosed = FALSE
    /\ sem = 0
    /\ mainPc = "scanner"
    /\ held = <<>>
    /\ result = NoResult
    /\ aborted = FALSE
    /\ abortedReason = <<>>
    /\ ftask = [p \in TaskPaths |-> IdleTask]
    /\ scDirs = EmptyMap
    /\ scFiles = EmptyMap
    /\ scSummaries = EmptyMap
    /\ erridx = {}
    /\ fileidx = EmptyMap
    /\ dirQueue = <<>>
    /\ rollSeen = EmptyMap
    /\ rootSummary = <<>>
    /\ vfsFilenames = EmptyMap
    /\ vfsObjects = EmptyMap
    /\ vfsSummaries = EmptyMap
    /\ pending = {}
    /\ deltaState = {}
    /\ puts = EmptyMap
    /\ aggregate = {}
    /\ repoStates = {}
    /\ snapID = <<1>>

\* a backup, next to a fresh LocalState that nothing is called on

\* Backup over a tree of treeSet, on a repository and a VFS cache with no
\* history
InitBackupWith(trees, limits) ==
    /\ src \in trees
    /\ scan = ScanStream(src)
    /\ repoLocation = PRepo
    /\ excludes = {}
    /\ maxConcurrency \in limits
    /\ InitBackup

InitBackupOver(treeSet) ==
    InitBackupWith({Widen(t) : t \in treeSet}, {MaxConcurrency})

\* &storage.Configuration{}
ZeroConfiguration == [RepositoryID |-> 0]

\* the check command is not run
NoCheck == [Snapshots |-> <<>>, NoVerify |-> FALSE, examined |-> 0,
            failures |-> FALSE, status |-> "none"]

\* no call of PutPackfile under way, an empty storage and an empty
\* snap.deltaState
NoStore ==
    [pc |-> "idle", mac |-> <<>>, written |-> FALSE, todo |-> {}, err |-> <<>>,
     calls |-> 0,
     packfiles |-> {}, deltas |-> {}, records |-> {}]

\* the objects the calls are made on, as constructed
\* no command was sent on the connection to the agent
NoRpc ==
    [client |-> "idle", server |-> "idle", request |-> FALSE, conn |-> <<>>,
     closed |-> FALSE, encodingErrorOccurred |-> FALSE, writes |-> 0,
     sent |-> <<>>, relayed |-> <<>>, status |-> 0, err |-> <<>>, ret |-> <<>>]

\* NewAgent: the listener is open on the socket file; neither ListenAndServe
\* nor Shutdown has taken a step
NewAgent ==
    [listener |-> "set", open |-> TRUE, socket |-> TRUE,
     loop |-> "select", shutdown |-> "idle", ret |-> <<>>,
     accepted |-> 0, started |-> 0, completed |-> 0]

\* entryPoint has not been entered
NoEntry ==
    [pc |-> "start", command |-> "", encrypted |-> FALSE, source |-> "",
     envPassphrase |-> <<>>, skipPassphrase |-> FALSE, attempts |-> 0,
     tried |-> 0, derived |-> FALSE, verified |-> FALSE, secret |-> <<>>,
     installed |-> <<>>, executed |-> FALSE, exit |-> <<>>]

InitObj ==
    /\ rpc = NoRpc
    /\ cli = NoEntry
    /\ agent = NewAgent
    /\ config = ZeroConfiguration
    /\ checksum = [i \in 1..ChecksumSize |-> 0]
    /\ check = NoCheck
    /\ store = NoStore

\* a LocalState and a packer nothing was put in
InitLib ==
    /\ lsMetadata = NewLocalState(1)
    /\ lsDeltas = EmptyMap
    /\ lsStates = EmptyMap
    /\ packer = <<>>
    /\ call = NoCall
    /\ InitObj

InitOver(treeSet) ==
    /\ InitBackupOver(treeSet)
    /\ InitLib

Init == InitOver(Trees)

InitSingleFile == InitOver(SingleFileTrees)

(***************************************************************************)
(* Blobs                                                                   *)
(***************************************************************************)
\* snap.BlobExists: the aggregate state has a location for (kind, mac)
BlobExists(kind, mac) == <<kind, mac>> \in aggregate

RECURSIVE CountPuts(_, _)
\* the PutBlob counters after the calls PutBlob(k[1], k[2], ...) for k in keys
CountPuts(ps, keys) ==
    IF keys = <<>> THEN ps
    ELSE LET k == Head(keys)
             n == IF k \in DOMAIN ps THEN ps[k] ELSE 0
         IN CountPuts(MapPut(ps, k, n + 1), Tail(keys))

\* snap.PutBlob for each of keys: the blobs reach the packer
PutBlobs(keys) ==
    /\ puts' = CountPuts(puts, keys)
    /\ pending' = pending \cup {keys[i] : i \in DOMAIN keys}

RECURSIVE SetToSeq(_)
SetToSeq(S) ==
    IF S = {} THEN <<>>
    ELSE LET x == CHOOSE y \in S : TRUE IN <<x>> \o SetToSeq(S \ {x})

(***************************************************************************)
(* importerJob                                                             *)
(***************************************************************************)
\* imp.Root()
ImpRoot == PRoot

\* Faulty variant of IsRootError: the equality with the root is dropped.
IsRootErrorShorterOnly(pathname) == Len(pathname) < Len(ImpRoot)

\* Faulty variant of IsRootError: every path under the root is fatal.
IsRootErrorByPrefix(pathname) == HasPrefix(pathname, ImpRoot)

\* the test of importerJob that makes a scan error fatal
IsRootError(pathname) == pathname = ImpRoot \/ Len(pathname) < Len(ImpRoot)

RECURSIVE Match(_, _)
\* glob.Match: a '*' of the pattern stands for any run of characters, every
\* other character for itself
Match(pattern, s) ==
    IF pattern = <<>> THEN s = <<>>
    ELSE IF Head(pattern) = 42
    THEN \E k \in 0..Len(s) : Match(Tail(pattern), SubSeq(s, k + 1, Len(s)))
    ELSE s # <<>> /\ Head(s) = Head(pattern) /\ Match(Tail(pattern), Tail(s))

\* Faulty variant of skipExcludedPathname: nothing is excluded.
skipNothing(record) == FALSE

\* skipExcludedPathname: the pathname of a record or of an error matches one
\* of options.Excludes; "/" is never excluded
skipExcludedPathname(record) ==
    /\ record.Pathname # <<47>>
    /\ \E exclude \in excludes : Match(exclude, record.Pathname)

\* for _record := range scanner: read the next result, stop when aborted,
\* pass over an excluded one
ImporterRecv ==
    /\ impPc = "loop"
    /\ IF scanPos > Len(scan) \/ aborted
       THEN impPc' = "wait" /\ UNCHANGED scanPos
       ELSE IF skipExcludedPathname(scan[scanPos])
       THEN impPc' = "loop" /\ scanPos' = scanPos + 1
       ELSE impPc' = "acquire" /\ UNCHANGED scanPos
    /\ UNCHANGED <<treeVars, scan, dispatch, filesChannel, chanClosed, sem,
                   mainVars, abortVars, ftask, scVars, erridx, rollVars, vfsVars,
                   packVars, repoVars, snapID>>
    /\ UNCHANGED <<optVars, libVars>>

\* Faulty variant of Acquire: the send never blocks.
AcquireUnbounded == sem' = sem + 1

\* backupCtx.maxConcurrency <- true: the send blocks while the channel, of
\* capacity maxConcurrency, is full
Acquire == sem < maxConcurrency /\ sem' = sem + 1

\* backupCtx.maxConcurrency <- true; go func(record)
ImporterSpawn ==
    /\ impPc = "acquire"
    /\ Acquire
    /\ dispatch' = dispatch \cup {scanPos}
    /\ scanPos' = scanPos + 1
    /\ impPc' = "loop"
    /\ UNCHANGED <<treeVars, scan, filesChannel, chanClosed, mainVars, abortVars,
                   ftask, scVars, erridx, rollVars, vfsVars, packVars, repoVars,
                   snapID>>
    /\ UNCHANGED <<optVars, libVars>>

\* Faulty variant of InRepository: only the directory of the repository itself.
IsRepository(pathname) == pathname = repoLocation

\* strings.HasPrefix(record.Pathname, repoLocation+"/")
InRepository(pathname) == HasPrefix(pathname, repoLocation \o <<47>>)

\* the goroutine of one scan result
DispatchTask(i) ==
    /\ i \in dispatch
    /\ LET record == scan[i] IN
       /\ IF record.type = "error"
          THEN /\ IF IsRootError(record.Pathname)
                  THEN /\ aborted' = TRUE
                       /\ abortedReason' = <<record.Err>>
                       /\ UNCHANGED erridx
                  ELSE /\ erridx' = erridx \cup {record.Pathname}
                       /\ UNCHANGED abortVars
               /\ UNCHANGED <<filesChannel, scDirs>>
          ELSE IF InRepository(record.Pathname)
          THEN UNCHANGED <<abortVars, erridx, filesChannel, scDirs>>
          ELSE IF record.FileInfo.Lmode # "dir"
          THEN /\ Len(filesChannel) < FilesChannelCap
               /\ filesChannel' = Append(filesChannel, record.Pathname)
               /\ UNCHANGED <<abortVars, erridx, scDirs>>
          ELSE /\ scDirs' = MapPut(scDirs, record.Pathname, NewEntry(record))
               /\ UNCHANGED <<abortVars, erridx, filesChannel>>
    /\ dispatch' = dispatch \ {i}
    /\ sem' = sem - 1
    /\ UNCHANGED <<treeVars, scan, scanPos, impPc, chanClosed, mainVars, ftask,
                   scFiles, scSummaries, rollVars, vfsVars, packVars, repoVars,
                   snapID>>
    /\ UNCHANGED <<optVars, libVars>>

\* wg.Wait(); close(filesChannel)
ImporterClose ==
    /\ impPc = "wait"
    /\ dispatch = {}
    /\ chanClosed' = TRUE
    /\ impPc' = "done"
    /\ UNCHANGED <<treeVars, scan, scanPos, dispatch, filesChannel, sem, mainVars,
                   abortVars, ftask, scVars, erridx, rollVars, vfsVars, packVars,
                   repoVars, snapID>>
    /\ UNCHANGED <<optVars, libVars>>

(***************************************************************************)
(* Backup: the scanner loop and its per-file goroutines                    *)
(***************************************************************************)
\* the scan record a path was queued with
RecordOf(p) == scan[CHOOSE i \in DOMAIN scan : scan[i].Pathname = p]

\* ctx.Err() as returned by Backup
Cancelled == [kind |-> "cancelled", err |-> <<>>]

\* for _record := range filesChannel, with the cancellation test
ScannerRecv ==
    /\ mainPc = "scanner"
    /\ \/ /\ filesChannel # <<>>
          /\ filesChannel' = Tail(filesChannel)
          /\ IF ctxDone
             THEN /\ result' = Cancelled
                  /\ mainPc' = "done"
                  /\ UNCHANGED held
             ELSE /\ held' = <<Head(filesChannel)>>
                  /\ mainPc' = "acquire"
                  /\ UNCHANGED result
       \/ /\ filesChannel = <<>>
          /\ chanClosed
          /\ mainPc' = "scanwait"
          /\ UNCHANGED <<filesChannel, held, result>>
    /\ UNCHANGED <<treeVars, impVars, chanClosed, sem, abortVars, ftask, scVars,
                   erridx, rollVars, vfsVars, packVars, repoVars, snapID>>
    /\ UNCHANGED <<optVars, libVars>>

\* backupCtx.maxConcurrency <- true; scannerWg.Add(1); go func(record)
ScannerSpawn ==
    /\ mainPc = "acquire"
    /\ Acquire
    /\ ftask' = [ftask EXCEPT ![held[1]] =
                    [IdleTask EXCEPT !.pc = "lookup", !.late = aborted]]
    /\ held' = <<>>
    /\ mainPc' = "scanner"
    /\ UNCHANGED <<treeVars, impVars, filesChannel, chanClosed, result, abortVars,
                   scVars, erridx, rollVars, vfsVars, packVars, repoVars, snapID>>
    /\ UNCHANGED <<optVars, libVars>>

\* Faulty variant of ScannerWait: Backup goes on without waiting for the
\* per-file goroutines.
ScannerNoWait ==
    /\ mainPc = "scanwait"
    /\ mainPc' = "persist_err"
    /\ UNCHANGED <<treeVars, impVars, filesChannel, chanClosed, sem, held, result,
                   abortVars, ftask, scVars, erridx, rollVars, vfsVars, packVars,
                   repoVars, snapID>>
    /\ UNCHANGED <<optVars, libVars>>

\* scannerWg.Wait()
ScannerWait ==
    /\ mainPc = "scanwait"
    /\ \A p \in TaskPaths : ftask[p].pc \in {"idle", "done"}
    /\ mainPc' = "persist_err"
    /\ UNCHANGED <<treeVars, impVars, filesChannel, chanClosed, sem, held, result,
                   abortVars, ftask, scVars, erridx, rollVars, vfsVars, packVars,
                   repoVars, snapID>>
    /\ UNCHANGED <<optVars, libVars>>

\* The VFS cache lookup of a per-file goroutine: the cached entry is taken
\* over when its FileInfo equals the record's, and with it the cached object.
CacheLookup(record) ==
    LET hit    == record.Pathname \in DOMAIN vfsFilenames
        cached == vfsFilenames[record.Pathname]
        equal  == hit /\ FileInfoEqual(cached.FileInfo, record.FileInfo)
        objhit == /\ equal
                  /\ cached.FileInfo.Lmode = "regular"
                  /\ cached.Object # <<>>
                  /\ cached.Object[1] \in DOMAIN vfsObjects
        obj    == vfsObjects[cached.Object[1]]
    IN [fileEntry |-> IF equal THEN <<cached>> ELSE <<>>,
        cachedMAC |-> IF hit THEN ComputeMAC(EntryToBytes(cached)) ELSE <<>>,
        object    |-> IF objhit THEN <<obj>> ELSE <<>>,
        objectMAC |-> IF objhit THEN ComputeMAC(SerializeObject(obj)) ELSE <<>>]

\* Faulty variant of NeedsChunk: a cached object is trusted without asking
\* the state for its blob.
NeedsChunkIgnoringState(record, object, objectMAC) ==
    /\ record.FileInfo.Lmode = "regular"
    /\ object = <<>>

\* Faulty variant of NeedsChunk: the mode of the record is not looked at.
NeedsChunkAnyMode(record, object, objectMAC) ==
    object = <<>> \/ ~BlobExists("OBJECT", objectMAC)

\* the test that sends a record to chunkify
NeedsChunk(record, object, objectMAC) ==
    /\ record.FileInfo.Lmode = "regular"
    /\ object = <<>> \/ ~BlobExists("OBJECT", objectMAC)

\* imp.NewReader(pathname) succeeds
Readable(p) == src[p].st # "unreadable"

\* objects.NewObject()
NewObject == [ContentMAC |-> <<>>, Chunks |-> <<>>]

\* First part of a per-file goroutine: cache lookup, then either the cached
\* object is kept or chunkify opens the file.
FileLookup(p) ==
    /\ ftask[p].pc = "lookup"
    /\ LET record == RecordOf(p)
           c      == CacheLookup(record)
       IN IF NeedsChunk(record, c.object, c.objectMAC)
          THEN IF Readable(p)
               THEN /\ ftask' = [ftask EXCEPT ![p] =
                                    [@ EXCEPT !.pc = "chunk",
                                              !.fileEntry = c.fileEntry,
                                              !.cachedMAC = c.cachedMAC,
                                              !.object = <<NewObject>>,
                                              !.rest = src[p].content,
                                              !.chunked = TRUE]]
                    /\ UNCHANGED <<erridx, sem>>
               ELSE /\ erridx' = erridx \cup {p}
                    /\ ftask' = [ftask EXCEPT ![p] =
                                    [@ EXCEPT !.pc = "done", !.chunked = TRUE]]
                    /\ sem' = sem - 1
          ELSE /\ ftask' = [ftask EXCEPT ![p] =
                               [@ EXCEPT !.pc = "finish",
                                         !.fileEntry = c.fileEntry,
                                         !.cachedMAC = c.cachedMAC,
                                         !.object = c.object,
                                         !.objectMAC = c.objectMAC]]
               /\ UNCHANGED <<erridx, sem>>
    /\ UNCHANGED <<treeVars, impVars, filesChannel, chanClosed, mainVars, abortVars,
                   scVars, rollVars, vfsVars, packVars, repoVars, snapID>>
    /\ UNCHANGED <<optVars, libVars>>

\* the bytes chunkify hands to the next processChunk call
ChunkData(record, rest) ==
    IF record.FileInfo.Lsize = 0 THEN <<>>
    ELSE IF record.FileInfo.Lsize < MinSize THEN rest
    ELSE SubSeq(rest, 1, NextCut(rest))

\* Faulty variant of LastChunk: the chunker loop ends after its first chunk.
LastChunkAlways(record, rest) == TRUE

\* chunkify makes no further processChunk call: the empty and the small
\* file take one, the chunker loop ends with the stream
LastChunk(record, rest) ==
    \/ record.FileInfo.Lsize = 0
    \/ record.FileInfo.Lsize < MinSize
    \/ rest = <<>>

\* Faulty variant of AppendChunk: the chunk is put in front.
PrependChunk(chunks, chunk) == <<chunk>> \o chunks

\* object.Chunks = append(object.Chunks, *chunk)
AppendChunk(chunks, chunk) == Append(chunks, chunk)

\* objectHasher.Write(data)
HasherWrite(hasher, data) == hasher \o data

\* the chunk is submitted unless the state already has it
SubmitChunk(mac) == ~BlobExists("CHUNK", mac)

\* One processChunk call of chunkify; after the last chunk the object is
\* completed, serialized and stored in the VFS cache.
FileChunk(p) ==
    /\ ftask[p].pc = "chunk"
    /\ LET record == RecordOf(p)
           t      == ftask[p]
           data   == ChunkData(record, t.rest)
           rest   == SubSeq(t.rest, Len(data) + 1, Len(t.rest))
           chunk  == NewChunk(data)
           hasher == HasherWrite(t.hasher, data)
           chunks == AppendChunk(t.object[1].Chunks, chunk)
           submit == SubmitChunk(chunk.ContentMAC)
           last   == LastChunk(record, rest)
           object == [ContentMAC |-> IF last THEN ComputeMAC(hasher) ELSE <<>>,
                      Chunks |-> chunks]
           mac    == ComputeMAC(SerializeObject(object))
       IN /\ ftask' = [ftask EXCEPT ![p] =
                          [@ EXCEPT !.pc = IF last THEN "finish" ELSE "chunk",
                                    !.rest = rest,
                                    !.hasher = hasher,
                                    !.object = <<object>>,
                                    !.objectMAC = IF last THEN mac ELSE <<>>,
                                    !.sent = IF submit THEN Append(@, Len(t.hasher))
                                             ELSE @]]
          /\ IF submit
             THEN PutBlobs(<< <<"CHUNK", chunk.ContentMAC>> >>)
             ELSE UNCHANGED <<puts, pending>>
          /\ IF last
             THEN vfsObjects' = MapPut(vfsObjects, mac, object)
             ELSE UNCHANGED vfsObjects
    /\ UNCHANGED <<treeVars, impVars, filesChannel, chanClosed, sem, mainVars,
                   abortVars, scVars, erridx, rollVars, vfsFilenames, vfsSummaries,
                   deltaState, repoVars, snapID>>
    /\ UNCHANGED <<optVars, libVars>>

\* Faulty variant of SubmitObject: the state is not asked.
SubmitObjectAlways(object, objectMAC) == object # <<>>

\* the object is submitted unless the state already has it
SubmitObject(object, objectMAC) == object # <<>> /\ ~BlobExists("OBJECT", objectMAC)

\* Rest of a per-file goroutine: the object blob, the file entry (the cached
\* one when its blob still exists), the VFS cache and the scan cache.
FileFinish(p) ==
    /\ ftask[p].pc = "finish"
    /\ LET record   == RecordOf(p)
           t        == ftask[p]
           putObj   == SubmitObject(t.object, t.objectMAC)
           reuse    == t.fileEntry # <<>> /\ BlobExists("VFS_ENTRY", t.cachedMAC)
           entry    == IF reuse THEN t.fileEntry[1]
                       ELSE [NewEntry(record) EXCEPT
                               !.Object = IF t.object # <<>> THEN <<t.objectMAC>> ELSE <<>>]
           entryMAC == ComputeMAC(EntryToBytes(entry))
           summary  == [Size |-> record.FileInfo.Lsize,
                        Objects |-> IF t.object # <<>> THEN 1 ELSE 0,
                        Chunks |-> IF t.object # <<>> THEN Len(t.object[1].Chunks) ELSE 0]
       IN /\ PutBlobs((IF putObj THEN << <<"OBJECT", t.objectMAC>> >> ELSE <<>>)
                      \o (IF reuse THEN <<>> ELSE << <<"VFS_ENTRY", entryMAC>> >>))
          /\ IF reuse
             THEN UNCHANGED <<vfsFilenames, vfsSummaries>>
             ELSE /\ vfsFilenames' = MapPut(vfsFilenames, p, entry)
                  /\ vfsSummaries' = MapPut(vfsSummaries, p, summary)
          /\ scFiles' = MapPut(scFiles, p, entry)
          /\ ftask' = [ftask EXCEPT ![p] = [@ EXCEPT !.pc = "done"]]
    /\ sem' = sem - 1
    /\ UNCHANGED <<treeVars, impVars, filesChannel, chanClosed, mainVars, abortVars,
                   scDirs, scSummaries, erridx, rollVars, vfsObjects, deltaState,
                   repoVars, snapID>>
    /\ UNCHANGED <<optVars, libVars>>

(***************************************************************************)
(* Backup: indexes, roll-up and commit                                     *)
(***************************************************************************)
\* blobs persistIndex submits for the values of an index
IndexPuts(kind, macs) ==
    SetToSeq({<<kind, m>> : m \in {x \in macs : ~BlobExists(kind, x)}})

\* Faulty variant of EnumerateDirectories: the iterator always runs forward.
EnumerateDirectoriesForward(reverse) == SortAsc(DOMAIN scDirs)

\* ScanCache.EnumerateKeysWithPrefix("__directory__:", reverse): the
\* directory keys in the order the iterator yields them
EnumerateDirectories(reverse) ==
    IF reverse THEN Reverse(SortAsc(DOMAIN scDirs)) ELSE SortAsc(DOMAIN scDirs)

\* persistIndex of the error index, then the roll-up iterator is opened
PersistErrors ==
    /\ mainPc = "persist_err"
    /\ PutBlobs(IndexPuts("ERROR_ENTRY", {ComputeMAC(ErrorToBytes(e)) : e \in erridx}))
    /\ dirQueue' = EnumerateDirectories(TRUE)
    /\ mainPc' = "rollup"
    /\ UNCHANGED <<treeVars, impVars, filesChannel, chanClosed, sem, held, result,
                   abortVars, ftask, scVars, erridx, fileidx, rollSeen, rootSummary,
                   vfsVars, deltaState, repoVars, snapID>>
    /\ UNCHANGED <<optVars, libVars>>

\* prefix under which the children of a directory are keyed
DirPrefix(dirPath) == IF dirPath = PRoot THEN dirPath ELSE dirPath \o <<47>>

\* a key is a direct child of the directory with this prefix
DirectChild(key, prefix) ==
    /\ HasPrefix(key, prefix)
    /\ TrimPrefix(key, prefix) # <<>>
    /\ ~ContainsSlash(TrimPrefix(key, prefix))

RECURSIVE ApplyFiles(_, _)
\* the child-file loop of the roll-up over the child paths fs
ApplyFiles(s, fs) ==
    IF fs = <<>> THEN s
    ELSE IF Head(fs) \in DOMAIN vfsSummaries
    THEN ApplyFiles(UpdateWithFileSummary([s EXCEPT !.Children = @ + 1],
                                          vfsSummaries[Head(fs)]), Tail(fs))
    ELSE ApplyFiles(s, Tail(fs))

RECURSIVE ApplyDirs(_, _)
\* the child-directory loop of the roll-up over the child paths ds
ApplyDirs(s, ds) ==
    IF ds = <<>> THEN s
    ELSE IF Head(ds) \in DOMAIN scSummaries
    THEN ApplyDirs(UpdateBelow([s EXCEPT !.Children = @ + 1],
                               scSummaries[Head(ds)]), Tail(ds))
    ELSE ApplyDirs(s, Tail(ds))

RECURSIVE CountErrors(_, _)
\* the error loop of the roll-up over the names es that erridx.ScanFrom
\* yields: it counts names directly below prefix and stops at the first
\* name that is outside the prefix or deeper
CountErrors(es, prefix) ==
    IF es = <<>> THEN 0
    ELSE IF ~HasPrefix(Head(es), prefix) THEN 0
    ELSE IF ContainsSlash(TrimPrefix(Head(es), prefix)) THEN 0
    ELSE 1 + CountErrors(Tail(es), prefix)

\* erridx.ScanFrom(key): the names at or after key, ascending
ErrScanFrom(key) == SortAsc({e \in erridx : Compare(e, key) >= 0})

\* Faulty variant of RootSummaryAfter: the summary of "/" is not captured.
RootSummaryKept(dirPath, summary) == rootSummary

\* rootSummary after the directory dirPath was rolled up: the summary of
\* "/" is captured
RootSummaryAfter(dirPath, summary) ==
    IF dirPath = PRoot THEN <<summary>> ELSE rootSummary

\* One iteration of the roll-up loop, or its end.
RollupDir ==
    /\ mainPc = "rollup"
    /\ IF dirQueue = <<>>
       THEN /\ mainPc' = "persist"
            /\ UNCHANGED <<result, scDirs, scSummaries, rollVars>>
       ELSE IF ctxDone
       THEN /\ result' = Cancelled
            /\ mainPc' = "done"
            /\ UNCHANGED <<scDirs, scSummaries, rollVars>>
       ELSE LET dirPath   == Head(dirQueue)
                prefix    == DirPrefix(dirPath)
                childFs   == SortAsc({k \in DOMAIN scFiles : DirectChild(k, prefix)})
                childDs   == SortAsc({k \in DOMAIN scDirs : DirectChild(k, prefix)})
                s1        == ApplyFiles(NewSummary, childFs)
                s2        == ApplyDirs(s1, childDs)
                summary   == [s2 EXCEPT !.BelowErrors =
                                 @ + CountErrors(ErrScanFrom(prefix), prefix)]
                seen      == {d \in DOMAIN scSummaries : DirectChild(d, prefix)}
            IN IF dirPath = PRoot /\ rootSummary # <<>>
               THEN /\ scSummaries' = MapPut(scSummaries, dirPath, summary)
                    /\ result' = [kind |-> "panic", err |-> <<"double /!">>]
                    /\ mainPc' = "done"
                    /\ UNCHANGED <<scDirs, rollVars>>
               ELSE
               /\ scSummaries' = MapPut(scSummaries, dirPath, summary)
               /\ rootSummary' = RootSummaryAfter(dirPath, summary)
               /\ fileidx' = [k \in DOMAIN fileidx \cup {dirPath}
                                   \cup {childFs[i] : i \in DOMAIN childFs} |->
                                 IF k = dirPath THEN scDirs[dirPath]
                                 ELSE IF k \in DOMAIN fileidx THEN fileidx[k]
                                 ELSE scFiles[k]]
               /\ rollSeen' = MapPut(rollSeen, dirPath, seen)
               /\ dirQueue' = Tail(dirQueue)
               /\ UNCHANGED <<mainPc, result, scDirs>>
    /\ UNCHANGED <<treeVars, impVars, filesChannel, chanClosed, sem, held, abortVars,
                   ftask, scFiles, erridx, vfsVars, packVars, repoVars, snapID>>
    /\ UNCHANGED <<optVars, libVars>>

\* what Backup returns for a latched abort
AbortError == [kind |-> "error", err |-> abortedReason]

\* persistIndex of the file, xattr and content-type indexes, then the
\* abort test and the construction of the header
PersistIndexes ==
    /\ mainPc = "persist"
    /\ PutBlobs(IndexPuts("VFS_ENTRY",
                  {ComputeMAC(EntryToBytes(fileidx[k])) : k \in DOMAIN fileidx}))
    /\ IF aborted
       THEN /\ result' = AbortError
            /\ mainPc' = "done"
       ELSE IF rootSummary = <<>>
       THEN /\ result' = [kind |-> "panic", err |-> <<>>]
            /\ mainPc' = "done"
       ELSE /\ mainPc' = "commit"
            /\ UNCHANGED result
    /\ UNCHANGED <<treeVars, impVars, filesChannel, chanClosed, sem, held, abortVars,
                   ftask, scVars, erridx, rollVars, vfsVars, deltaState, repoVars,
                   snapID>>
    /\ UNCHANGED <<optVars, libVars>>

\* Snapshot.PutPackfile: the packer seals its packfile and records a delta
\* entry for each of its blobs
PutPackfile ==
    /\ pending # {}
    /\ deltaState' = deltaState \cup pending
    /\ pending' = {}
    /\ UNCHANGED <<treeVars, impVars, filesChannel, chanClosed, sem, mainVars,
                   abortVars, ftask, scVars, erridx, rollVars, vfsVars, puts,
                   repoVars, snapID>>
    /\ UNCHANGED <<optVars, libVars>>

\* Faulty variant of Commit: the context is tested once the state is put.
CommitThenTestContext ==
    /\ mainPc = "commit"
    /\ puts' = CountPuts(puts, << <<"SNAPSHOT", snapID>> >>)
    /\ deltaState' = deltaState \cup pending \cup {<<"SNAPSHOT", snapID>>}
    /\ pending' = {}
    /\ repoStates' = repoStates \cup {snapID}
    /\ aggregate' = aggregate \cup deltaState'
    /\ result' = IF ctxDone THEN Cancelled ELSE [kind |-> "ok", err |-> <<>>]
    /\ mainPc' = "done"
    /\ UNCHANGED <<treeVars, impVars, filesChannel, chanClosed, sem, held, abortVars,
                   ftask, scVars, erridx, rollVars, vfsVars, snapID>>
    /\ UNCHANGED <<optVars, libVars>>

\* Snapshot.Commit: the header blob, the last packfile, the delta state
Commit ==
    /\ mainPc = "commit"
    /\ puts' = CountPuts(puts, << <<"SNAPSHOT", snapID>> >>)
    /\ deltaState' = deltaState \cup pending \cup {<<"SNAPSHOT", snapID>>}
    /\ pending' = {}
    /\ repoStates' = repoStates \cup {snapID}
    /\ aggregate' = aggregate \cup deltaState'
    /\ result' = [kind |-> "ok", err |-> <<>>]
    /\ mainPc' = "done"
    /\ UNCHANGED <<treeVars, impVars, filesChannel, chanClosed, sem, held, abortVars,
                   ftask, scVars, erridx, rollVars, vfsVars, snapID>>
    /\ UNCHANGED <<optVars, libVars>>

\* what Commit returns when repo.PutState fails
PutStateError == [kind |-> "failed", err |-> <<>>]

\* Snapshot.Commit on a backend whose PutState fails: the header blob is
\* submitted and the packer, its channel closed, flushes the packfile in
\* progress before the state is put
CommitPutStateFails ==
    /\ mainPc = "commit"
    /\ puts' = CountPuts(puts, << <<"SNAPSHOT", snapID>> >>)
    /\ deltaState' = deltaState \cup pending \cup {<<"SNAPSHOT", snapID>>}
    /\ pending' = {}
    /\ result' = PutStateError
    /\ mainPc' = "done"
    /\ UNCHANGED <<treeVars, impVars, filesChannel, chanClosed, sem, held, abortVars,
                   ftask, scVars, erridx, rollVars, vfsVars, repoVars, snapID>>
    /\ UNCHANGED <<optVars, libVars>>

\* the context of the backup is cancelled
Cancel ==
    /\ ~ctxDone
    /\ mainPc # "done"
    /\ ctxDone' = TRUE
    /\ UNCHANGED <<src, second, firstOk, unchanged, impVars, filesChannel,
                   chanClosed, sem, mainVars, abortVars, ftask, scVars, erridx,
                   rollVars, vfsVars, packVars, repoVars, snapID>>
    /\ UNCHANGED <<optVars, libVars>>

(***************************************************************************)
(* A second backup of the same origin                                      *)
(***************************************************************************)
\* the tree after one regular file was touched or rewritten, or no change
NextTrees(t) ==
    {t} \cup
    {[t EXCEPT ![p] = [@ EXCEPT !.mtime = 2]] :
        p \in {q \in FilePaths : t[q].st = "file"}} \cup
    UNION {{[t EXCEPT ![p] = [@ EXCEPT !.content = c, !.mtime = 2]] :
               c \in {d \in Contents : d # t[p].content}} :
           p \in {q \in FilePaths : t[q].st = "file"}}

\* Backup has returned and every goroutine it started has ended: a new
\* snapshot of the same origin is created, with a fresh scan cache and delta
\* state, the VFS cache of the origin (unless it was removed) and the
\* repository as the first backup left it.
StartSecond ==
    /\ ~second
    /\ mainPc = "done"
    /\ result.kind \in {"ok", "error"}
    /\ impPc = "done"
    /\ sem = 0
    /\ second' = TRUE
    /\ firstOk' = (result.kind = "ok")
    /\ \E t \in NextTrees(src) :
          /\ src' = t
          /\ unchanged' = (t = src)
          /\ scan' = ScanStream(t)
    /\ \E keep \in BOOLEAN :
          IF keep THEN UNCHANGED vfsVars
          ELSE /\ vfsFilenames' = EmptyMap
               /\ vfsObjects' = EmptyMap
               /\ vfsSummaries' = EmptyMap
    /\ ctxDone' = FALSE
    /\ scanPos' = 1
    /\ impPc' = "loop"
    /\ dispatch' = {}
    /\ filesChannel' = <<>>
    /\ chanClosed' = FALSE
    /\ mainPc' = "scanner"
    /\ held' = <<>>
    /\ result' = NoResult
    /\ aborted' = FALSE
    /\ abortedReason' = <<>>
    /\ ftask' = [p \in TaskPaths |-> IdleTask]
    /\ scDirs' = EmptyMap
    /\ scFiles' = EmptyMap
    /\ scSummaries' = EmptyMap
    /\ erridx' = {}
    /\ fileidx' = EmptyMap
    /\ dirQueue' = <<>>
    /\ rollSeen' = EmptyMap
    /\ rootSummary' = <<>>
    /\ pending' = {}
    /\ deltaState' = {}
    /\ puts' = EmptyMap
    /\ snapID' = <<2>>
    /\ UNCHANGED <<sem, repoVars>>
    /\ UNCHANGED <<optVars, libVars>>

(***************************************************************************)
(* Specifications                                                          *)
(***************************************************************************)
Next ==
    \/ ImporterRecv
    \/ ImporterSpawn
    \/ \E i \in dispatch : DispatchTask(i)
    \/ ImporterClose
    \/ ScannerRecv
    \/ ScannerSpawn
    \/ ScannerWait
    \/ \E p \in TaskPaths : FileLookup(p)
    \/ \E p \in TaskPaths : FileChunk(p)
    \/ \E p \in TaskPaths : FileFinish(p)
    \/ PersistErrors
    \/ RollupDir
    \/ PersistIndexes
    \/ PutPackfile
    \/ Commit
    \/ Cancel
    \/ StartSecond

\* backups of every tree over the candidate paths
Spec == Init /\ [][Next]_vars

\* backups of a single file of every content up to MaxLen
SpecSingleFile == InitSingleFile /\ [][Next]_vars

NextFaulty ==
    \/ Next
    \/ CommitPutStateFails

\* backups of a single file on a backend whose PutState may fail
SpecFaulty == InitSingleFile /\ [][NextFaulty]_vars

(***************************************************************************)
(* Backups of scan streams with several errors on the root path            *)
(***************************************************************************)
\* a ScanError on the root path, with error e
RootError(e) ==
    [type |-> "error", Pathname |-> ImpRoot, FileInfo |-> FileInfoOf(ImpRoot, Err),
     Err |-> e]

\* NumRootErrors errors on the root path, each with an error of its own
RootErrors == [i \in 1..NumRootErrors |-> RootError(<<48 + i>>)]

\* the stream s with the root errors reported after its first k results
WithRootErrors(s, k) == SubSeq(s, 1, k) \o RootErrors \o SubSeq(s, k + 1, Len(s))

\* Backup of a single file by an importer that reports NumRootErrors errors on
\* the root path, at any one place of its stream
InitRootErrors ==
    /\ src \in {Widen(t) : t \in SingleFileTrees}
    /\ scan \in {WithRootErrors(ScanStream(src), k) : k \in 0..Len(ScanStream(src))}
    /\ repoLocation = PRepo
    /\ excludes = {}
    /\ maxConcurrency = MaxConcurrency
    /\ InitBackup
    /\ InitLib

SpecRootErrors == InitRootErrors /\ [][Next]_vars

(***************************************************************************)
(* Backups of a tree that holds the repository                             *)
(***************************************************************************)
\* the trees with every directory and both files
FullTrees ==
    {[p \in Paths |-> IF p \in DirPaths THEN Dir
                      ELSE IF p = PABX THEN File(c) ELSE File(d)] :
        c \in Contents, d \in Contents}

\* the repository is outside the tree, or is the directory /a or /a/b of it
RepoLocations == {PRepo, PA, PAB}

InitRepository ==
    /\ src \in {Widen(t) : t \in FullTrees}
    /\ scan = ScanStream(src)
    /\ repoLocation \in RepoLocations
    /\ excludes = {}
    /\ maxConcurrency = MaxConcurrency
    /\ InitBackup
    /\ InitLib

SpecRepository == InitRepository /\ [][Next]_vars

(***************************************************************************)
(* Backups with exclusion patterns                                         *)
(***************************************************************************)
\* trees with every directory, whose root and files may be in error
ExcludeTrees ==
    {t \in Trees :
        /\ t[PA] = Dir /\ t[PAB] = Dir
        /\ \A p \in FilePaths : t[p] \in {Err, File(<<1, 1, 1, 1>>)}}

\* the patterns "/a", "/a/c", "/a/b*" and "*"
ExcludeSets == {{}, {PA}, {PAC}, {PAB \o <<42>>}, {<<42>>}}

InitExcludes ==
    /\ src \in {Widen(t) : t \in ExcludeTrees}
    /\ scan = ScanStream(src)
    /\ repoLocation = PRepo
    /\ excludes \in ExcludeSets
    /\ maxConcurrency = MaxConcurrency
    /\ InitBackup
    /\ InitLib

SpecExcludes == InitExcludes /\ [][Next]_vars

(***************************************************************************)
(* Backups of a tree with symbolic links                                   *)
(***************************************************************************)
\* trees with every directory, the symbolic link /a/b/x and, in /a/c, a
\* regular file or another link
SymlinkTrees ==
    {[p \in Paths |-> IF p \in DirPaths THEN Dir
                      ELSE IF p = PABX THEN Symlink ELSE n] :
        n \in {Symlink} \cup {File(c) : c \in Contents}}

InitSymlink ==
    /\ src \in {Widen(t) : t \in SymlinkTrees}
    /\ scan = ScanStream(src)
    /\ repoLocation = PRepo
    /\ excludes = {}
    /\ maxConcurrency = MaxConcurrency
    /\ InitBackup
    /\ InitLib

SpecSymlink == InitSymlink /\ [][Next]_vars

(***************************************************************************)
(* Calls on a LocalState                                                   *)
(***************************************************************************)
\* the closed set of blob kinds, in the order it is listed
BlobKinds ==
    <<"SNAPSHOT", "CHUNK", "OBJECT", "VFS_ENTRY", "VFS_NODE", "VFS_BTREE",
      "XATTR_ENTRY", "XATTR_NODE", "XATTR_BTREE", "ERROR_ENTRY", "ERROR_NODE",
      "ERROR_BTREE", "BTREE_ROOT", "BTREE_NODE", "SIGNATURE", "STATE">>

\* the resources.Type of a kind: consecutive integers from RT_SNAPSHOT on
ResourceType(kind) == CHOOSE i \in DOMAIN BlobKinds : BlobKinds[i] = kind

RT_SNAPSHOT == ResourceType("SNAPSHOT")

\* three of the resources.Type values
ResourceTypes ==
    {RT_SNAPSHOT, ResourceType("CHUNK"), ResourceType("ERROR_ENTRY")}

Checksums == {Checksum(k) : k \in 1..NumBlobs}

\* two places in two packfiles
Locations ==
    {[Packfile |-> Checksum(10), Offset |-> 0, Length |-> 1],
     [Packfile |-> Checksum(11), Offset |-> 258, Length |-> 65536]}

DeltaEntries == [Type : ResourceTypes, Blob : Checksums, Location : Locations]

StateIDs == {Checksum(20 + k) : k \in 1..NumStates}

\* the fresh serials a caller supplies
Serials == {UUID(MaxTimestamp + 2), UUID(MaxTimestamp + 3)}

Timestamps == 1..MaxTimestamp

\* the delta sets of the states other backups pushed to the repository
RemoteDeltas ==
    LET de(T, l) == [Type |-> T, Blob |-> Checksum(1), Location |-> l]
        l1 == [Packfile |-> Checksum(10), Offset |-> 0, Length |-> 1]
        l2 == [Packfile |-> Checksum(11), Offset |-> 258, Length |-> 65536]
    IN {PutDelta(EmptyMap, de(1, l1)),
        PutDelta(PutDelta(EmptyMap, de(1, l2)), de(2, l1))}

\* the metadata of those states: one per timestamp, each with a serial of
\* its own, and a second one with the latest timestamp
RemoteMetadata ==
    {[NewLocalState(ts) EXCEPT !.Serial = UUID(ts)] : ts \in Timestamps}
        \cup {[NewLocalState(MaxTimestamp) EXCEPT !.Serial = UUID(MaxTimestamp + 1)]}

\* the streams of those states
RemoteStreams ==
    {SerializeToStream(mt, ds) : mt \in RemoteMetadata, ds \in RemoteDeltas}

\* streams whose entries carry a tag that is neither LOCATIONS nor METADATA
ForeignStreams ==
    {StreamOf(ET_TIMESTAMP, NewLocalState(1), ds) : ds \in RemoteDeltas}

\* streams that end early, within the serial and within the timestamp
TruncatedStreams ==
    {Take(s, Len(s) - cut) : s \in RemoteStreams, cut \in {1, UUIDSize + 4}}

\* the streams a reader is given
InputStreams ==
    RemoteStreams \cup ForeignStreams
        \cup {CHOOSE s \in TruncatedStreams : Len(s) = n :
                  n \in {Len(s) : s \in TruncatedStreams}}

\* the orders in which a range over a map with the keys S can yield them
Orders(S) ==
    {s \in [1..Cardinality(S) -> S] : \A i, j \in DOMAIN s : s[i] = s[j] => i = j}

\* a LocalState whose owner set its Aggregate flag and its serial or not
InitState ==
    /\ InitBackupOver({[p \in Paths |-> IF p = PRoot THEN Dir ELSE Absent]})
    /\ lsMetadata \in {[NewLocalState(now) EXCEPT !.Aggregate = a, !.Serial = s] :
                          now \in {-1, MaxTimestamp}, a \in BOOLEAN,
                          s \in {UUID(0), UUID(255)}}
    /\ lsDeltas = EmptyMap
    /\ lsStates = EmptyMap
    /\ packer = <<>>
    /\ call = NoCall
    /\ InitObj

\* ls.SetPackfileForBlob(Type, packfile, blob, offset, length)
CallSetPackfileForBlob ==
    \E de \in DeltaEntries :
        /\ lsDeltas' = PutDelta(lsDeltas, de)
        /\ call' = [op |-> "SetPackfileForBlob", arg |-> de, ret |-> <<>>]
        /\ UNCHANGED <<backupVars, objVars, lsMetadata, lsStates, packer>>

\* ls.GetSubpartForBlob(Type, blob)
CallGetSubpartForBlob ==
    \E Type \in ResourceTypes, blob \in Checksums :
        /\ call' = [op |-> "GetSubpartForBlob", arg |-> <<Type, blob>>,
                    ret |-> GetSubpartForBlob(lsDeltas, Type, blob)]
        /\ UNCHANGED <<backupVars, objVars, lsVars, packer>>

\* ls.BlobExists(Type, blob)
CallBlobExists ==
    \E Type \in ResourceTypes, blob \in Checksums :
        /\ call' = [op |-> "BlobExists", arg |-> <<Type, blob>>,
                    ret |-> HasDelta(lsDeltas, Type, blob)]
        /\ UNCHANGED <<backupVars, objVars, lsVars, packer>>

\* ls.SerializeToStream(w)
CallSerializeToStream ==
    /\ call' = [op |-> "SerializeToStream", arg |-> <<>>,
                ret |-> SerializeToStream(lsMetadata, lsDeltas)]
    /\ UNCHANGED <<backupVars, objVars, lsVars, packer>>

\* FromStream(rd, cache) into an empty cache, rd being an input stream or
\* the stream ls was just serialized to
CallFromStream ==
    \E rd \in InputStreams \cup
              (IF call.op = "SerializeToStream" THEN {call.ret} ELSE {}) :
        /\ call' = [op |-> "FromStream", arg |-> rd,
                    ret |-> FromStream(rd, EmptyMap)]
        /\ UNCHANGED <<backupVars, objVars, lsVars, packer>>

\* ls.InsertState(stateID, rd)
CallInsertState ==
    \E stateID \in StateIDs, rd \in InputStreams :
        /\ IF stateID \in DOMAIN lsStates
           THEN /\ call' = [op |-> "InsertState", arg |-> rd,
                            ret |-> [err |-> FALSE, merged |-> FALSE]]
                /\ UNCHANGED <<lsMetadata, lsDeltas, lsStates>>
           ELSE LET d == deserializeFromStream(rd, lsMetadata, lsDeltas) IN
                /\ lsMetadata' = d.Metadata
                /\ lsDeltas' = d.deltas
                /\ lsStates' = IF d.err THEN lsStates
                               ELSE MapPut(lsStates, stateID,
                                           MetadataToBytes(d.Metadata))
                /\ call' = [op |-> "InsertState", arg |-> rd,
                            ret |-> [err |-> d.err, merged |-> TRUE]]
        /\ UNCHANGED <<backupVars, objVars, packer>>

\* ls.UpdateSerialOr(serial), the range over the states in any order
CallUpdateSerialOr ==
    \E serial \in Serials, ids \in Orders(DOMAIN lsStates) :
        /\ lsMetadata' = [lsMetadata EXCEPT
                             !.Serial = UpdateSerialOr(ids, lsStates, serial)]
        /\ call' = [op |-> "UpdateSerialOr", arg |-> serial, ret |-> <<>>]
        /\ UNCHANGED <<backupVars, objVars, lsDeltas, lsStates, packer>>

\* ls.Derive(cache)
CallDerive ==
    \E now \in Timestamps :
        /\ call' = [op |-> "Derive", arg |-> now, ret |-> Derive(lsMetadata, now)]
        /\ UNCHANGED <<backupVars, objVars, lsVars, packer>>

NextState ==
    \/ CallSetPackfileForBlob
    \/ CallGetSubpartForBlob
    \/ CallBlobExists
    \/ CallSerializeToStream
    \/ CallFromStream

\* the delta entries of a LocalState: writes, lookups and the stream
SpecState == InitState /\ [][NextState]_vars

NextSerial ==
    \/ CallInsertState
    \/ CallUpdateSerialOr
    \/ CallDerive

\* the states merged into a LocalState and the serial it takes from them
SpecSerial == InitState /\ [][NextSerial]_vars

(***************************************************************************)
(* Packfiles: the bytes PutPackfile writes and the parse of the info      *)
(* subcommand                                                              *)
(***************************************************************************)
\* the blobs a packer is given: kind, MAC and encoded payload
PackerBlobs ==
    {[Type |-> T, MAC |-> Checksum(Len(d)), data |-> d] :
        T \in ResourceTypes, d \in {<<1>>, <<2, 2>>}}

RECURSIVE PackfileIndex(_, _)
\* packer.Packfile.Index: one entry per blob, offset being where its payload
\* starts in the data section
PackfileIndex(blobs, offset) ==
    IF blobs = <<>> THEN <<>>
    ELSE <<[Type |-> Head(blobs).Type, MAC |-> Head(blobs).MAC,
            Offset |-> offset, Length |-> Len(Head(blobs).data)]>>
         \o PackfileIndex(Tail(blobs), offset + Len(Head(blobs).data))

RECURSIVE SerializeData(_)
\* Packfile.SerializeData: the payloads in insertion order
SerializeData(blobs) ==
    IF blobs = <<>> THEN <<>> ELSE Head(blobs).data \o SerializeData(Tail(blobs))

\* the width of a serialized index entry: mac, kind, version, offset, length,
\* flags
IndexEntrySize == ChecksumSize + 1 + 4 + 4 + 4 + 4

RECURSIVE SerializeIndex(_)
\* Packfile.SerializeIndex
SerializeIndex(index) ==
    IF index = <<>> THEN <<>>
    ELSE LET e == Head(index) IN
         e.MAC \o <<e.Type>> \o PutUint(VERSION, 4) \o PutUint(e.Offset, 4)
            \o PutUint(e.Length, 4) \o PutUint(0, 4) \o SerializeIndex(Tail(index))

RECURSIVE DeserializeIndex(_)
\* the index entries packfile.NewFromBytes reads from decoded index bytes
DeserializeIndex(buf) ==
    IF Len(buf) < IndexEntrySize THEN <<>>
    ELSE <<[Type |-> buf[ChecksumSize + 1], MAC |-> Take(buf, ChecksumSize),
            Offset |-> Uint(SubSeq(buf, ChecksumSize + 6, ChecksumSize + 9)),
            Length |-> Uint(SubSeq(buf, ChecksumSize + 10, ChecksumSize + 13))]>>
         \o DeserializeIndex(Drop(buf, IndexEntrySize))

\* the footer of the packfile of blobs, created at time 1
PackfileFooter(blobs) ==
    [Version |-> VERSION, Timestamp |-> 1, Count |-> Len(blobs),
     IndexOffset |-> Len(SerializeData(blobs)),
     IndexMAC |-> ComputeMAC(SerializeIndex(PackfileIndex(blobs, 0))),
     Flags |-> 0]

\* Packfile.SerializeFooter: version, timestamp, count, index offset, index
\* MAC, flags
SerializeFooter(f) ==
    PutUint(f.Version, 4) \o PutInt64(f.Timestamp) \o PutUint(f.Count, 4)
        \o PutUint(f.IndexOffset, 4) \o f.IndexMAC \o PutUint(f.Flags, 4)

\* packfile.NewFooterFromBytes: err for a buffer too short for the fields
NewFooterFromBytes(buf) ==
    IF Len(buf) < 24
    THEN [err |-> TRUE, footer |-> <<>>]
    ELSE [err |-> FALSE,
          footer |-> <<[Version |-> Uint(Take(buf, 4)),
                        Timestamp |-> Int64(SubSeq(buf, 5, 12)),
                        Count |-> Uint(SubSeq(buf, 13, 16)),
                        IndexOffset |-> Uint(SubSeq(buf, 17, 20)),
                        IndexMAC |-> SubSeq(buf, 21, Len(buf) - 4),
                        Flags |-> Uint(SubSeq(buf, Len(buf) - 3, Len(buf)))]>>]

\* the byte the codec puts before a buffer it encoded
CodecNonce == <<7>>

\* repo.EncodeBuffer
EncodeBuffer(buf) == CodecNonce \o buf

\* repo.DecodeBuffer: err for a buffer the codec did not produce
DecodeBuffer(buf) ==
    IF Len(buf) >= 1 /\ Take(buf, 1) = CodecNonce
    THEN [err |-> FALSE, buf |-> Tail(buf)]
    ELSE [err |-> TRUE, buf |-> <<>>]

\* the bytes Snapshot.PutPackfile hands to repository.PutPackfile
SerializePackfile(blobs) ==
    LET serializedData   == SerializeData(blobs)
        serializedIndex  == SerializeIndex(PackfileIndex(blobs, 0))
        serializedFooter == SerializeFooter(PackfileFooter(blobs))
        encryptedIndex   == EncodeBuffer(serializedIndex)
        encryptedFooter  == EncodeBuffer(serializedFooter)
    IN serializedData \o encryptedIndex \o encryptedFooter
          \o PutUint(Len(encryptedFooter), 4)

\* what the parse gives when it stops on an error or on a slice out of range
ParseFailed == [err |-> TRUE, Version |-> 0, Footer |-> <<>>, Index |-> <<>>]

\* InfoPackfile.Execute on the bytes of one packfile: the version and the
\* footer length from the last 5 bytes, the footer, then the index
InfoPackfile(raw) ==
    IF Len(raw) < 5 THEN ParseFailed
    ELSE
    LET version      == Uint(SubSeq(raw, Len(raw) - 4, Len(raw) - 1))
        footerOffset == raw[Len(raw)]
        rawPackfile  == Take(raw, Len(raw) - 5)
    IN IF footerOffset > Len(rawPackfile) THEN ParseFailed
       ELSE
       LET footerbuf == DecodeBuffer(Drop(rawPackfile, Len(rawPackfile) - footerOffset))
           rest      == Take(rawPackfile, Len(rawPackfile) - footerOffset)
       IN IF footerbuf.err THEN ParseFailed
          ELSE
          LET f == NewFooterFromBytes(footerbuf.buf) IN
          IF f.err \/ f.footer[1].IndexOffset > Len(rest) THEN ParseFailed
          ELSE
          LET indexbuf == DecodeBuffer(Drop(rest, f.footer[1].IndexOffset)) IN
          IF indexbuf.err \/ ComputeMAC(indexbuf.buf) # f.footer[1].IndexMAC
          THEN ParseFailed
          ELSE [err |-> FALSE, Version |-> version, Footer |-> f.footer,
                Index |-> DeserializeIndex(indexbuf.buf)]

\* packer.AddBlob, once per (kind, MAC) in a packfile
PackerAdd(blobs) ==
    \E b \in blobs :
        /\ Len(packer) < MaxBlobs
        /\ \A i \in DOMAIN packer : <<packer[i].Type, packer[i].MAC>> # <<b.Type, b.MAC>>
        /\ packer' = Append(packer, b)
        /\ UNCHANGED <<backupVars, objVars, lsVars, call>>

\* a blob of any kind is added
PackerAddBlob == PackerAdd(PackerBlobs)

\* snap.PutPackfile(packer): the bytes that go to the storage
CallPutPackfile ==
    /\ packer # <<>>
    /\ call' = [op |-> "PutPackfile", arg |-> packer,
                ret |-> SerializePackfile(packer)]
    /\ UNCHANGED <<backupVars, objVars, lsVars, packer>>

\* plakar info packfile, on the bytes the last PutPackfile wrote
CallInfoPackfile ==
    /\ call.op = "PutPackfile"
    /\ call' = [op |-> "InfoPackfile", arg |-> call.arg,
                ret |-> InfoPackfile(call.ret)]
    /\ UNCHANGED <<backupVars, objVars, lsVars, packer>>

NextPackfile ==
    \/ PackerAddBlob
    \/ CallPutPackfile
    \/ CallInfoPackfile

\* packfiles of up to MaxBlobs blobs, written and parsed
SpecPackfile == InitState /\ [][NextPackfile]_vars

(***************************************************************************)
(* Snapshot.PutPackfile step by step: the write to the storage, the delta  *)
(* entries and the packfile record                                         *)
(***************************************************************************)
\* the calls of PutPackfile a run makes
MaxPackfiles == 2

\* the delta entry PutPackfile builds for the entry idx of the index
DeltaOf(blobs, idx, mac) ==
    LET e == PackfileIndex(blobs, 0)[idx]
    IN [Type |-> e.Type, Blob |-> e.MAC,
        Location |-> [Packfile |-> mac, Offset |-> e.Offset, Length |-> e.Length]]

\* Faulty variant of AfterWrite: the error of the storage is dropped.
AfterWriteIgnoresError(ok) == "deltas"

\* where PutPackfile goes after repository.PutPackfile: it returns the
\* error of a failed write
AfterWrite(ok) == IF ok THEN "deltas" ELSE "done"

\* PutPackfile is called on a packer that holds blobs: the packfile is
\* serialized and its MAC computed
PutPackfileBegin ==
    /\ store.pc = "idle"
    /\ packer # <<>>
    /\ store.calls < MaxPackfiles
    /\ store' = [store EXCEPT !.pc = "write", !.written = FALSE, !.err = <<>>,
                              !.calls = @ + 1,
                              !.mac = ComputeMAC(SerializePackfile(packer))]
    /\ UNCHANGED <<backupVars, lsVars, packer, call, config, checksum, check, svcVars>>

\* snap.repository.PutPackfile(mac, ...) succeeds or fails
PutPackfileWrite ==
    /\ store.pc = "write"
    /\ \E ok \in BOOLEAN :
          store' = [store EXCEPT
                       !.pc = AfterWrite(ok),
                       !.written = ok,
                       !.packfiles = IF ok THEN @ \cup {store.mac} ELSE @,
                       !.err = IF ok THEN <<>> ELSE <<"Could not write pack file">>,
                       !.todo = DOMAIN packer]
    /\ UNCHANGED <<backupVars, lsVars, packer, call, config, checksum, check, svcVars>>

\* one turn of the loops over the blobs of the packer, in the order of the
\* maps: snap.deltaState.PutDelta(delta) succeeds or fails
PutPackfileDelta ==
    /\ store.pc = "deltas"
    /\ store.todo # {}
    /\ \E idx \in store.todo, ok \in BOOLEAN :
          store' = IF ok
                   THEN [store EXCEPT
                            !.deltas = @ \cup {DeltaOf(packer, idx, store.mac)},
                            !.todo = @ \ {idx}]
                   ELSE [store EXCEPT !.pc = "done", !.err = <<"PutDelta">>]
    /\ UNCHANGED <<backupVars, lsVars, packer, call, config, checksum, check, svcVars>>

\* snap.deltaState.PutPackfile(snap.Header.Identifier, mac) succeeds or fails
PutPackfileRecord ==
    /\ store.pc = "deltas"
    /\ store.todo = {}
    /\ \E ok \in BOOLEAN :
          store' = IF ok
                   THEN [store EXCEPT !.pc = "done", !.records = @ \cup {store.mac}]
                   ELSE [store EXCEPT !.pc = "done", !.err = <<"PutPackfile">>]
    /\ UNCHANGED <<backupVars, lsVars, packer, call, config, checksum, check, svcVars>>

\* PutPackfile returns; the packer goroutine goes on with a new packer
PutPackfileReturn ==
    /\ store.pc = "done"
    /\ call' = [op |-> "Snapshot.PutPackfile", arg |-> store.mac, ret |-> store.err]
    /\ store' = [store EXCEPT !.pc = "idle", !.written = FALSE, !.todo = {}]
    /\ packer' = <<>>
    /\ UNCHANGED <<backupVars, lsVars, config, checksum, check, svcVars>>

\* the packer goroutine adds a blob between two calls of PutPackfile
PackerAddSnapshotBlob ==
    /\ store.pc = "idle"
    /\ PackerAdd({b \in PackerBlobs : b.Type = RT_SNAPSHOT})

NextPutPackfile ==
    \/ PackerAddSnapshotBlob
    \/ PutPackfileBegin
    \/ PutPackfileWrite
    \/ PutPackfileDelta
    \/ PutPackfileRecord
    \/ PutPackfileReturn

\* packfiles written one after the other by the packer goroutine
SpecPutPackfile == InitState /\ [][NextPutPackfile]_vars

(***************************************************************************)
(* storage.Configuration: its serialized forms and InitFromBytes           *)
(***************************************************************************)
\* configurations of two repositories
Configurations == {[RepositoryID |-> 1], [RepositoryID |-> 2]}

\* compression.DeflateStream("GZIP"): the gzip magic, then the payload
Deflate(buffer) == <<31, 139>> \o buffer

\* compression.InflateStream("GZIP") and io.ReadAll: err without the magic
Inflate(buffer) ==
    IF Len(buffer) >= 2 /\ Take(buffer, 2) = <<31, 139>>
    THEN [err |-> FALSE, buffer |-> Drop(buffer, 2)]
    ELSE [err |-> TRUE, buffer |-> <<>>]

\* json.Marshal(config): {"RepositoryID":n}, the key left out
JsonMarshal(c) == <<123, 48 + c.RepositoryID, 125>>

\* json.Unmarshal(data, &config), config being a *Configuration: an object
\* fills the configuration, null sets the pointer to nil (config |-> <<>>),
\* anything else is an error
JsonUnmarshal(data) ==
    IF data = <<110, 117, 108, 108>> THEN [err |-> FALSE, config |-> <<>>]
    ELSE IF data = <<123, 125>> THEN [err |-> FALSE, config |-> <<ZeroConfiguration>>]
    ELSE IF Len(data) = 3 /\ data[1] = 123 /\ data[3] = 125 /\ data[2] \in 48..57
    THEN [err |-> FALSE, config |-> <<[RepositoryID |-> data[2] - 48]>>]
    ELSE [err |-> TRUE, config |-> <<>>]

\* msgpack.Marshal(config): a map of one pair, the key left out
MsgpackMarshal(c) == <<129, c.RepositoryID>>

\* msgpack.Unmarshal(data, &config): a map fills the configuration, nil sets
\* the pointer to nil, anything else is an error
MsgpackUnmarshal(data) ==
    IF data = <<192>> THEN [err |-> FALSE, config |-> <<>>]
    ELSE IF data = <<128>> THEN [err |-> FALSE, config |-> <<ZeroConfiguration>>]
    ELSE IF Len(data) = 2 /\ data[1] = 129 /\ data[2] \in 0..127
    THEN [err |-> FALSE, config |-> <<[RepositoryID |-> data[2]]>>]
    ELSE [err |-> TRUE, config |-> <<>>]

\* newConfigurationFromBytes for a format other than "auto"
DecodeConfiguration(buffer, format) ==
    LET gzip     == format \in {"msgpack", "json+gz"}
        inflated == Inflate(buffer)
        data     == IF gzip THEN inflated.buffer ELSE buffer
    IN IF format \notin {"msgpack", "json", "json+gz"} \/ (gzip /\ inflated.err)
       THEN [err |-> TRUE, config |-> <<>>]
       ELSE IF format = "msgpack" THEN MsgpackUnmarshal(data)
       ELSE JsonUnmarshal(data)

\* Faulty variant of AutoFormats: json is tried first.
AutoFormatsJsonFirst == <<"json", "msgpack", "json+gz">>

\* the formats autodetection tries
AutoFormats == <<"msgpack", "json", "json+gz">>

\* newConfigurationFromBytes(buffer, format); tried lists the formats it
\* decoded the buffer with
newConfigurationFromBytes(buffer, format) ==
    IF format = "auto"
    THEN LET ok == {i \in DOMAIN AutoFormats :
                       ~DecodeConfiguration(buffer, AutoFormats[i]).err}
         IN IF ok = {}
            THEN [err |-> TRUE, config |-> <<>>, tried |-> AutoFormats]
            ELSE LET first == CHOOSE i \in ok : \A j \in ok : i <= j
                 IN [err |-> FALSE,
                     config |-> DecodeConfiguration(buffer, AutoFormats[first]).config,
                     tried |-> SubSeq(AutoFormats, 1, first)]
    ELSE LET d == DecodeConfiguration(buffer, format)
         IN [err |-> d.err, config |-> d.config, tried |-> <<format>>]

\* the payloads: the two forms of each configuration, of an empty one and of
\* a null, and one that is none of them
Payloads ==
    {JsonMarshal(c) : c \in Configurations}
    \cup {MsgpackMarshal(c) : c \in Configurations}
    \cup {<<110, 117, 108, 108>>, <<123, 125>>, <<192>>, <<128>>, <<0>>}

\* the buffers: payloads as they are and deflated, an empty and a cut one
Buffers == Payloads \cup {Deflate(b) : b \in Payloads} \cup {<<>>, <<31>>}

Formats == {"auto", "msgpack", "json", "json+gz", "yaml"}

\* config.InitFromBytes(buffer, format): *config = *newConfig, which is a
\* nil dereference for a nil newConfig
CallInitFromBytes ==
    \E buffer \in Buffers, format \in Formats :
        LET r == newConfigurationFromBytes(buffer, format) IN
        /\ config' = IF r.err \/ r.config = <<>> THEN config ELSE r.config[1]
        /\ call' = [op |-> "InitFromBytes",
                    arg |-> [buffer |-> buffer, format |-> format],
                    ret |-> [kind |-> IF r.err THEN "error"
                                      ELSE IF r.config = <<>> THEN "panic" ELSE "ok",
                             tried |-> r.tried]]
        /\ UNCHANGED <<backupVars, lsVars, packer, checksum, check, sysVars>>

NextConfiguration == CallInitFromBytes

\* InitFromBytes called again and again on one configuration
SpecConfiguration == InitState /\ [][NextConfiguration]_vars

(***************************************************************************)
(* objects.MAC and objects.Checksum: the JSON form                         *)
(***************************************************************************)
\* MAC.MarshalJSON: the hex string as a JSON string
MarshalJSON(m) == <<34>> \o EncodeToString(m) \o <<34>>

\* hex: the value of a digit, of either case, -1 for any other character
FromHexChar(c) ==
    IF c \in 48..57 THEN c - 48
    ELSE IF c \in 97..102 THEN c - 97 + 10
    ELSE IF c \in 65..70 THEN c - 65 + 10
    ELSE -1

RECURSIVE DecodeString(_)
\* hex.DecodeString: err for an odd length or a character that is no digit
DecodeString(s) ==
    IF s = <<>> THEN [err |-> FALSE, decoded |-> <<>>]
    ELSE IF Len(s) = 1 \/ FromHexChar(s[1]) < 0 \/ FromHexChar(s[2]) < 0
    THEN [err |-> TRUE, decoded |-> <<>>]
    ELSE LET r == DecodeString(Drop(s, 2))
         IN [err |-> r.err,
             decoded |-> IF r.err THEN <<>>
                         ELSE <<16 * FromHexChar(s[1]) + FromHexChar(s[2])>> \o r.decoded]

\* json.Unmarshal(data, &s) for a string s: a quoted run of characters
\* without escapes; null leaves s empty
UnmarshalString(data) ==
    IF data = <<110, 117, 108, 108>> THEN [err |-> FALSE, s |-> <<>>]
    ELSE IF /\ Len(data) >= 2 /\ data[1] = 34 /\ data[Len(data)] = 34
            /\ \A i \in 2..(Len(data) - 1) : data[i] \notin {34, 92}
    THEN [err |-> FALSE, s |-> SubSeq(data, 2, Len(data) - 1)]
    ELSE [err |-> TRUE, s |-> <<>>]

\* MAC.UnmarshalJSON on the receiver m: the error and the receiver afterwards
UnmarshalJSON(m, data) ==
    LET s == UnmarshalString(data)
        d == DecodeString(s.s)
    IN IF s.err \/ d.err \/ Len(d.decoded) # ChecksumSize
       THEN [err |-> TRUE, m |-> m]
       ELSE [err |-> FALSE, m |-> d.decoded]

\* bytes with every kind of hex digit
ByteValues == {0, 10, 171, 255}

MACs == {m \in [1..ChecksumSize -> ByteValues] : TRUE}

\* JSON documents that are not the form of an identifier: hex strings too
\* short, too long, of odd length, with a character that is no digit, a
\* number, a string not closed, null and nothing
BrokenValues ==
    {<<34, 48, 49, 34>>,
     <<34>> \o [i \in 1..(2 * ChecksumSize + 2) |-> 48] \o <<34>>,
     <<34>> \o [i \in 1..(2 * ChecksumSize - 1) |-> 48] \o <<34>>,
     <<34>> \o [i \in 1..(2 * ChecksumSize) |-> 103] \o <<34>>,
     <<49, 50>>,
     <<34>> \o [i \in 1..(2 * ChecksumSize) |-> 48],
     <<110, 117, 108, 108>>,
     <<>>}

\* the identifier 0xab 0xab ... written in upper case
UpperCaseValue == <<34>> \o [i \in 1..(2 * ChecksumSize) |-> 65 + (i % 2)] \o <<34>>

\* m.MarshalJSON() for any identifier m
CallMarshalJSON ==
    \E m \in MACs :
        /\ call' = [op |-> "MarshalJSON", arg |-> m, ret |-> MarshalJSON(m)]
        /\ UNCHANGED <<backupVars, objVars, lsVars, packer>>

\* json.Unmarshal(data, &checksum), data being what MarshalJSON just returned or
\* another document
CallUnmarshalJSON ==
    \E data \in BrokenValues \cup {UpperCaseValue}
                \cup (IF call.op = "MarshalJSON" THEN {call.ret} ELSE {}) :
        LET r == UnmarshalJSON(checksum, data) IN
        /\ checksum' = r.m
        /\ call' = [op |-> "UnmarshalJSON", arg |-> data, ret |-> r.err]
        /\ UNCHANGED <<backupVars, config, check, sysVars, lsVars, packer>>

NextMAC ==
    \/ CallMarshalJSON
    \/ CallUnmarshalJSON

\* identifiers marshalled and documents unmarshalled into one identifier
SpecMAC == InitState /\ [][NextMAC]_vars

(***************************************************************************)
(* The check command                                                       *)
(***************************************************************************)
\* what may happen with one snapshot: it cannot be opened; or it is signed
\* or not, and Verify and Check each return true, false or an error
SnapshotOutcomes ==
    {[open |-> FALSE, signed |-> FALSE, verify |-> "ok", check |-> "ok"]}
    \cup {[open |-> TRUE, signed |-> TRUE, verify |-> v, check |-> c] :
             v \in {"ok", "false", "err"}, c \in {"ok", "false", "err"}}
    \cup {[open |-> TRUE, signed |-> FALSE, verify |-> "ok", check |-> c] :
             c \in {"ok", "false", "err"}}

\* Check.Execute is entered: the snapshots of the command line, with what
\* will happen to each, and -no-verify
CheckExecute ==
    /\ check.status = "none"
    /\ \E n \in 1..MaxSnapshots, nv \in BOOLEAN :
          \E s \in [1..n -> SnapshotOutcomes] :
              check' = [Snapshots |-> s, NoVerify |-> nv, examined |-> 0,
                        failures |-> FALSE, status |-> "running"]
    /\ UNCHANGED <<backupVars, lsVars, packer, call, config, checksum, sysVars>>

\* the signature verification of a snapshot sets failures
VerifyFails(snap, noVerify) == ~noVerify /\ snap.signed /\ snap.verify = "false"

\* snap.Check sets failures
CheckFails(snap) == snap.check = "false"

\* one turn of the loop over the snapshots; log.Fatal ends the process when
\* the snapshot cannot be opened
CheckSnapshot ==
    /\ check.status = "running"
    /\ check.examined < Len(check.Snapshots)
    /\ LET snap == check.Snapshots[check.examined + 1] IN
       IF ~snap.open
       THEN check' = [check EXCEPT !.status = "fatal"]
       ELSE check' = [check EXCEPT
                        !.examined = @ + 1,
                        !.failures = @ \/ VerifyFails(snap, check.NoVerify)
                                       \/ CheckFails(snap)]
    /\ UNCHANGED <<backupVars, lsVars, packer, call, config, checksum, sysVars>>

\* after the loop: 1 and "check failed", or 0
CheckReturn ==
    /\ check.status = "running"
    /\ check.examined = Len(check.Snapshots)
    /\ check' = [check EXCEPT !.status = IF check.failures THEN "1" ELSE "0"]
    /\ UNCHANGED <<backupVars, lsVars, packer, call, config, checksum, sysVars>>

NextCheck ==
    \/ CheckExecute
    \/ CheckSnapshot
    \/ CheckReturn

\* one run of the check command
SpecCheck == InitState /\ [][NextCheck]_vars

(***************************************************************************)
(* Iteration of the delta entries by kind                                  *)
(***************************************************************************)
\* bytes.LastIndexByte(key, c): 0 stands for the -1 of an absent byte
LastIndexByte(key, c) ==
    IF \E i \in DOMAIN key : key[i] = c
    THEN CHOOSE i \in DOMAIN key :
            key[i] = c /\ \A j \in DOMAIN key : key[j] = c => j <= i
    ELSE 0

RECURSIVE IterateDeltas(_, _, _)
\* the loop of GetDeltasByType over the keys from the seek position on: it
\* stops at the first key without the prefix and yields the checksum parsed
\* from the key with the stored value
IterateDeltas(keys, keyPrefix, deltas) ==
    IF keys = <<>> \/ ~HasPrefix(Head(keys), keyPrefix) THEN <<>>
    ELSE LET key == Head(keys)
             hex_csum == Drop(key, LastIndexByte(key, 58))
         IN <<[csum |-> DecodeString(hex_csum).decoded, value |-> deltas[key]]>>
            \o IterateDeltas(Tail(keys), keyPrefix, deltas)

\* ScanCache.GetDeltasByType: the prefix is fmt.Sprintf("__delta__:%d",
\* blobType), the namespace being left out of the keys here; iter.Seek goes
\* to the first key that is not below the prefix
GetDeltasByType(deltas, blobType) ==
    LET keyPrefix == Itoa(blobType)
    IN IterateDeltas(SortAsc({k \in DOMAIN deltas : Compare(k, keyPrefix) >= 0}),
                     keyPrefix, deltas)

\* LocalState.ListSnapshots: the checksums yielded
ListSnapshots(deltas) ==
    LET r == GetDeltasByType(deltas, RT_SNAPSHOT)
    IN [i \in DOMAIN r |-> r[i].csum]

\* LocalState.ListObjectsOfType: the entries yielded
ListObjectsOfType(deltas, Type) ==
    LET r == GetDeltasByType(deltas, Type)
    IN [i \in DOMAIN r |-> DeltaEntryFromBytes(r[i].value)]

\* ls.ListSnapshots()
CallListSnapshots ==
    /\ call' = [op |-> "ListSnapshots", arg |-> <<>>,
                ret |-> ListSnapshots(lsDeltas)]
    /\ UNCHANGED <<backupVars, objVars, lsVars, packer>>

\* ls.ListObjectsOfType(Type) for a kind of the closed set
CallListObjectsOfType ==
    \E i \in DOMAIN BlobKinds :
        /\ call' = [op |-> "ListObjectsOfType", arg |-> ResourceType(BlobKinds[i]),
                    ret |-> ListObjectsOfType(lsDeltas, ResourceType(BlobKinds[i]))]
        /\ UNCHANGED <<backupVars, objVars, lsVars, packer>>

NextDeltas ==
    \/ CallSetPackfileForBlob
    \/ CallListSnapshots
    \/ CallListObjectsOfType

\* the delta entries of a LocalState listed by kind
SpecDeltas == InitState /\ [][NextDeltas]_vars

(***************************************************************************)
(* Snapshot headers: SortHeaders as its test pins it down, and the listing *)
(* of the API that pages the sorted headers                                *)
(***************************************************************************)
\* the largest offset and limit of a request
MaxPage == 4

\* [32]byte{b}
SnapshotIDOf(b) == [i \in 1..ChecksumSize |-> IF i = 1 THEN b ELSE 0]

\* "server" followed by one digit
ServerName(d) == <<115, 101, 114, 118, 101, 114, 48 + d>>

\* baseHeaders of TestSortHeaders; CreationTime in hours from the time of
\* the test
baseHeaders ==
    <<[CreationTime |-> -1, Hostname |-> ServerName(1), FilesCount |-> 100,
       SnapshotID |-> SnapshotIDOf(1)],
      [CreationTime |-> -2, Hostname |-> ServerName(2), FilesCount |-> 200,
       SnapshotID |-> SnapshotIDOf(3)],
      [CreationTime |-> 0, Hostname |-> ServerName(3), FilesCount |-> 150,
       SnapshotID |-> SnapshotIDOf(2)]>>

\* a sort key: its name and whether it carries the '-' prefix
Key(name) == [name |-> name, desc |-> FALSE]
Desc(name) == [name |-> name, desc |-> TRUE]

\* the calls of TestSortHeaders, in its order: the keys, whether an error is
\* expected and the expected order as indices into baseHeaders
TestCases ==
    <<[keys |-> <<Key("CreationTime")>>, err |-> FALSE, expected |-> <<1, 2, 3>>],
      [keys |-> <<Desc("CreationTime")>>, err |-> FALSE, expected |-> <<3, 2, 1>>],
      [keys |-> <<Key("SnapshotID")>>, err |-> FALSE, expected |-> <<1, 3, 2>>],
      [keys |-> <<Desc("SnapshotID")>>, err |-> FALSE, expected |-> <<2, 3, 1>>],
      [keys |-> <<Key("InvalidKey")>>, err |-> TRUE, expected |-> <<>>],
      [keys |-> <<Key("FilesCount")>>, err |-> FALSE, expected |-> <<1, 3, 2>>],
      [keys |-> <<Desc("FilesCount")>>, err |-> FALSE, expected |-> <<2, 3, 1>>],
      [keys |-> <<Key("Hostname")>>, err |-> FALSE, expected |-> <<1, 2, 3>>],
      [keys |-> <<Desc("Hostname")>>, err |-> FALSE, expected |-> <<3, 2, 1>>],
      [keys |-> <<Key("FilesCount"), Key("CreationTime")>>, err |-> FALSE,
       expected |-> <<1, 3, 2>>],
      [keys |-> <<Desc("FilesCount"), Desc("CreationTime")>>, err |-> FALSE,
       expected |-> <<2, 3, 1>>]>>

\* the error SortHeaders returns for the key K
InvalidSortKey(K) == <<"invalid sort key: ", K>>

\* the orders SortHeaders may leave the copy of baseHeaders in for the case
\* c of TestSortHeaders: the expected one, and any after an error, where the
\* test does not look at the headers
ExpectedOrders(c) ==
    IF c.err THEN Orders(DOMAIN baseHeaders) ELSE {c.expected}

\* SortHeaders(headers, keys) on a copy of baseHeaders, as the case c of
\* TestSortHeaders requires it to behave
SortHeaders(c, order) ==
    [err |-> IF c.err THEN InvalidSortKey(c.keys[1].name) ELSE <<>>,
     headers |-> [i \in DOMAIN order |-> baseHeaders[order[i]]]]

\* a uint32 is kept as its two 16-bit halves
Half == 2^16

\* uint32(n) of a small n
Uint32(n) == [hi |-> n \div Half, lo |-> n % Half]

\* a + b in uint32: the carry out of the high half is lost
Add32(a, b) ==
    [hi |-> (a.hi + b.hi + ((a.lo + b.lo) \div Half)) % Half,
     lo |-> (a.lo + b.lo) % Half]

\* a > b in uint32
Gt32(a, b) == a.hi > b.hi \/ (a.hi = b.hi /\ a.lo > b.lo)

\* the value of a uint32 that is not above the length of a slice
IntOf(a) == a.lo

\* headers[low:high]: the slice expression panics unless low <= high <=
\* cap(headers)
SliceOf(headers, low, high) ==
    IF Gt32(low, high) \/ Gt32(high, Uint32(Len(headers)))
    THEN [panic |-> TRUE, Items |-> <<>>]
    ELSE [panic |-> FALSE, Items |-> SubSeq(headers, IntOf(low) + 1, IntOf(high))]

\* the page of repositorySnapshots: headers[offset:], headers[offset :
\* offset+limit] or nothing, offset and limit being uint32
Page(headers, offset, limit) ==
    IF Gt32(offset, Uint32(Len(headers))) THEN [panic |-> FALSE, Items |-> <<>>]
    ELSE IF Gt32(Add32(offset, limit), Uint32(Len(headers)))
    THEN SliceOf(headers, offset, Uint32(Len(headers)))
    ELSE SliceOf(headers, offset, Add32(offset, limit))

\* the offsets and limits of a request: the small ones and the largest of
\* uint32
PageParams ==
    {Uint32(k) : k \in 0..MaxPage} \cup
    {[hi |-> Half - 1, lo |-> Half - 1 - k] : k \in 0..MaxPage}

\* SortHeaders(headers, keys) called as TestSortHeaders calls it
CallSortHeaders ==
    \E n \in DOMAIN TestCases : \E order \in ExpectedOrders(TestCases[n]) :
        /\ call' = [op |-> "SortHeaders", arg |-> TestCases[n].keys,
                    ret |-> SortHeaders(TestCases[n], order)]
        /\ UNCHANGED <<backupVars, objVars, lsVars, packer>>

\* GET snapshots with a sort parameter, an offset and a limit on a
\* repository that holds the three headers; the error of SortHeaders is
\* dropped
CallRepositorySnapshots ==
    \E n \in DOMAIN TestCases, offset \in PageParams, limit \in PageParams :
      \E order \in ExpectedOrders(TestCases[n]) :
        LET sorted == SortHeaders(TestCases[n], order).headers
            lim == IF limit = Uint32(0) THEN Uint32(Len(baseHeaders)) ELSE limit
            page == Page(sorted, offset, lim)
        IN /\ call' = [op |-> "repositorySnapshots",
                       arg |-> [sort |-> TestCases[n].keys, offset |-> offset,
                                limit |-> limit, sorted |-> sorted],
                       ret |-> [Total |-> Len(baseHeaders),
                                Items |-> page.Items,
                                panic |-> page.panic]]
           /\ UNCHANGED <<backupVars, objVars, lsVars, packer>>

\* one request of the API, as the first call
RequestSnapshots == call = NoCall /\ CallRepositorySnapshots

NextHeaders ==
    \/ CallSortHeaders
    \/ RequestSnapshots

\* the headers of three snapshots sorted and paged
SpecHeaders == InitState /\ [][NextHeaders]_vars

(***************************************************************************)
(* Properties                                                              *)
(***************************************************************************)
\* the importer reports an error on the root path
RootErrorReported ==
    \E i \in DOMAIN scan : scan[i].type = "error" /\ scan[i].Pathname = ImpRoot

\* the SNAPSHOT header blob of this snapshot was submitted
HeaderSubmitted == <<"SNAPSHOT", snapID>> \in DOMAIN puts

\* the delta state of this snapshot was put to the repository
StateCommitted == snapID \in repoStates

\* C1: when the importer reports an error on the root path, neither the
\* SNAPSHOT header nor the delta state of the snapshot is ever committed, and
\* Backup, unless it returned earlier on cancellation, returns that error.
C1_RootErrorAborts ==
    RootErrorReported =>
        /\ ~HeaderSubmitted
        /\ ~StateCommitted
        /\ mainPc # "commit"
        /\ mainPc = "done" /\ result # Cancelled =>
              result = [kind |-> "error", err |-> <<ImpRoot>>]

\* a backup that returned the root error after its file tasks wrote blobs
C1_Witness ==
    /\ RootErrorReported
    /\ mainPc = "done"
    /\ result = [kind |-> "error", err |-> <<ImpRoot>>]
    /\ DOMAIN puts # {}

C3_CancelNeverCommits ==
    result = Cancelled => ~HeaderSubmitted /\ ~StateCommitted /\ mainPc = "done"

\* a backup cancelled during the roll-up, after blobs reached the packer
C3_Witness ==
    /\ result = Cancelled
    /\ DOMAIN scSummaries # {}
    /\ DOMAIN puts # {}

\* C4: within one backup every (kind, MAC) is submitted with PutBlob at most
\* once.
C4_PutAtMostOnce == \A k \in DOMAIN puts : puts[k] <= 1

\* C5: the second backup of an unchanged tree, after the first snapshot was
\* committed, submits no CHUNK and no OBJECT blob.
C5_UnchangedAddsNothing ==
    second /\ firstOk /\ unchanged =>
        \A k \in DOMAIN puts : k[1] \notin {"CHUNK", "OBJECT"}

\* the second backup of an unchanged tree has committed, after it chunked a
\* file again (the VFS cache was gone) and after it took a file from the cache
C5_Witness ==
    /\ second /\ firstOk /\ unchanged
    /\ mainPc = "done"
    /\ result.kind = "ok"
    /\ \E p \in FilePaths :
          /\ ftask[p].pc = "done"
          /\ ftask[p].object # <<>>
          /\ Len(ftask[p].object[1].Chunks) > 1

\* the VFS cache holds an entry for the path with the FileInfo of the record,
\* its object is in the cache and the aggregate state has that OBJECT blob
Reusable(p) ==
    /\ p \in DOMAIN vfsFilenames
    /\ vfsFilenames[p].FileInfo = RecordOf(p).FileInfo
    /\ vfsFilenames[p].Object # <<>>
    /\ vfsFilenames[p].Object[1] \in DOMAIN vfsObjects
    /\ <<"OBJECT", vfsFilenames[p].Object[1]>> \in aggregate

\* C6: a regular file is not chunked again exactly when its path is
\* reusable from the VFS cache; in every other case chunkify is called.
C6_ReuseExactly ==
    [][\A p \in FilePaths :
          ftask[p].pc = "lookup" /\ ftask'[p].pc # "lookup" =>
              (ftask'[p].chunked <=> ~Reusable(p))]_vars

\* in a second backup one file was taken from the cache and another one,
\* rewritten or touched, was chunked again
C6_Witness ==
    /\ second
    /\ \E p \in FilePaths : ftask[p].pc = "done" /\ ~ftask[p].chunked
    /\ \E p \in FilePaths : ftask[p].pc = "done" /\ ftask[p].chunked
                            /\ p \in DOMAIN vfsFilenames

\* the tasks whose chunkify call has returned an object
Chunkified == {p \in FilePaths : ftask[p].pc \in {"finish", "done"}
                                  /\ ftask[p].chunked /\ ftask[p].object # <<>>}

\* the lengths of the chunks of an object
ChunkLengths(o) == [i \in DOMAIN o.Chunks |-> o.Chunks[i].Length]

\* the payloads of the chunks of an object, as their MACs identify them
ChunkPayloads(o) == [i \in DOMAIN o.Chunks |-> o.Chunks[i].ContentMAC]

\* C7: the chunk lengths of an object chunkify produced sum to the size of
\* the file; an empty file has exactly one chunk, of length 0, and a file
\* smaller than MinSize exactly one chunk.
C7_LengthsSumToSize ==
    \A p \in Chunkified :
        LET o    == ftask[p].object[1]
            size == RecordOf(p).FileInfo.Lsize
        IN /\ SumSeq(ChunkLengths(o)) = size
           /\ size = 0 => ChunkLengths(o) = <<0>>
           /\ size < MinSize => Len(o.Chunks) = 1

\* chunkify returned objects of one chunk for an empty file, of one chunk
\* for a small file, of several chunks for a larger one
C7_Witness ==
    \E p \in Chunkified :
        /\ ftask[p].pc = "done"
        /\ Len(ftask[p].object[1].Chunks) > 1
        /\ RecordOf(p).FileInfo.Lsize > MinSize

\* C8: the chunks of a file are submitted and appended in file order: the
\* payloads in Object.Chunks order concatenate to the bytes read, the content
\* MAC is the MAC of that concatenation, and the submissions are in
\* increasing file offset.
C8_ChunksInFileOrder ==
    /\ \A p \in Chunkified :
          LET o == ftask[p].object[1]
          IN /\ Concat(ChunkPayloads(o)) = src[p].content
             /\ o.ContentMAC = ComputeMAC(Concat(ChunkPayloads(o)))
    /\ \A p \in FilePaths :
          LET t == ftask[p]
          IN /\ \A i, j \in DOMAIN t.sent : i < j => t.sent[i] < t.sent[j]
             /\ t.pc = "chunk" =>
                   Concat(ChunkPayloads(t.object[1])) \o t.rest = src[p].content

\* a file of two different chunks was chunked and both chunks submitted
C8_Witness ==
    \E p \in Chunkified :
        LET o == ftask[p].object[1]
        IN /\ Len(o.Chunks) = 2
           /\ o.Chunks[1].ContentMAC # o.Chunks[2].ContentMAC
           /\ Len(ftask[p].sent) = 2

\* C9: when a directory is rolled up, the summary of every direct child
\* directory recorded in the scan cache has already been persisted, so the
\* parent reads each of them.
C9_DeepestFirst ==
    \A d \in DOMAIN rollSeen :
        rollSeen[d] = {c \in DOMAIN scDirs : DirectChild(c, DirPrefix(d))}

\* the root was rolled up after /a, and /a after /a/b
C9_Witness ==
    /\ PRoot \in DOMAIN rollSeen
    /\ rollSeen[PRoot] = {PA}
    /\ rollSeen[PA] = {PAB}

\* the recorded errors strictly below a directory
ErrorsBelow(d) == {e \in erridx : e # d /\ HasPrefix(e, DirPrefix(d))}

\* C10: once the roll-up is complete, below.errors of every directory counts
\* every recorded error below it exactly once.
C10_ErrorsCounted ==
    mainPc \in {"persist", "commit"} =>
        \A d \in DOMAIN scSummaries :
            scSummaries[d].BelowErrors = Cardinality(ErrorsBelow(d))

\* the per-file goroutines that have started and not yet returned
RunningFileTasks == {p \in TaskPaths : ftask[p].pc \notin {"idle", "done"}}

\* C11: at every moment the running scan-result dispatch tasks plus the
\* running per-file tasks number at most max_concurrency, and each of them
\* holds one slot of the semaphore.
C11_AtMostMaxConcurrency ==
    /\ Cardinality(dispatch) + Cardinality(RunningFileTasks) <= MaxConcurrency
    /\ Cardinality(dispatch) + Cardinality(RunningFileTasks) = sem

\* the semaphore is full, shared by a dispatch task and a per-file task, and
\* the importer is blocked on it with a further scan result
C11_Witness ==
    /\ Cardinality(dispatch) + Cardinality(RunningFileTasks) = MaxConcurrency
    /\ dispatch # {}
    /\ RunningFileTasks # {}
    /\ impPc = "acquire"

\* what ls resolves the blob of the entry de to
Resolved(deltas, de) == GetSubpartForBlob(deltas, de.Type, de.Blob)

\* the result of GetSubpartForBlob that gives the location of de
LocationOf(de) ==
    [Packfile |-> de.Location.Packfile, Offset |-> de.Location.Offset,
     Length |-> de.Location.Length, found |-> TRUE]

\* C12: serializing ls with SerializeToStream and reading the stream with
\* FromStream into an empty cache gives the delta entries and the metadata
\* (version, timestamp, aggregate flag, serial) of ls.
C12_SerializeRoundTrip ==
    LET st == FromStream(SerializeToStream(lsMetadata, lsDeltas), EmptyMap) IN
    /\ ~st.err
    /\ st.st = <<lsMetadata>>
    /\ st.deltas = lsDeltas
    /\ \A k \in DOMAIN lsDeltas :
          DeltaEntryToBytes(DeltaEntryFromBytes(st.deltas[k])) = lsDeltas[k]

\* a state with two delta entries, the aggregate flag, a serial and a
\* timestamp before 1970 was serialized and read back
C12_Witness ==
    /\ call.op = "FromStream"
    /\ call.arg = SerializeToStream(lsMetadata, lsDeltas)
    /\ call.ret.st = <<lsMetadata>>
    /\ Cardinality(DOMAIN lsDeltas) >= 2
    /\ lsMetadata.Aggregate
    /\ lsMetadata.Serial = UUID(255)
    /\ lsMetadata.Timestamp < 0

RECURSIVE EntryTags(_)
\* the tag bytes at the entry positions of the stream r
EntryTags(r) ==
    IF r = <<>> \/ Head(r) = ET_METADATA THEN {}
    ELSE {Head(r)} \cup EntryTags(Drop(Tail(r), DeltaEntrySerializedSize))

\* C13: FromStream returns an error for a stream in which an entry tag is
\* neither LOCATIONS nor METADATA.
C13_UnknownTagRejected ==
    call.op = "FromStream" /\ EntryTags(call.arg) \ {ET_LOCATIONS} # {} =>
        call.ret.err

\* C14: writing the (kind, mac, location) that ls already holds leaves the
\* resolved location of (kind, mac) and the set of delta entries unchanged.
C14_SameDeltaTwice ==
    [][call'.op = "SetPackfileForBlob"
          /\ Resolved(lsDeltas, call'.arg) = LocationOf(call'.arg) =>
              /\ lsDeltas' = lsDeltas
              /\ Resolved(lsDeltas', call'.arg) = LocationOf(call'.arg)]_vars

\* the same delta was written twice in a row, next to a delta of another kind
C14_Witness ==
    /\ call.op = "SetPackfileForBlob"
    /\ Resolved(lsDeltas, call.arg) = LocationOf(call.arg)
    /\ Cardinality(DOMAIN lsDeltas) >= 2
    /\ call.arg.Location.Offset > 0

\* C15: a write of a (kind, mac) that already has a delta leaves the
\* location (kind, mac) resolves to as the first write set it.
C15_FirstWriteWins ==
    [][call'.op = "SetPackfileForBlob"
          /\ HasDelta(lsDeltas, call'.arg.Type, call'.arg.Blob) =>
              Resolved(lsDeltas', call'.arg) = Resolved(lsDeltas, call'.arg)]_vars

\* C16: resolving a (kind, mac) that ls has no delta for gives the
\* not-present result, BlobExists gives false, and neither changes ls.
C16_MissingIsNotPresent ==
    [][/\ call'.op = "GetSubpartForBlob"
              /\ ~HasDelta(lsDeltas, call'.arg[1], call'.arg[2]) =>
                  call'.ret = NotPresent /\ UNCHANGED <<lsMetadata, lsDeltas, lsStates>>
       /\ call'.op = "BlobExists"
              /\ ~HasDelta(lsDeltas, call'.arg[1], call'.arg[2]) =>
                  call'.ret = FALSE /\ UNCHANGED <<lsMetadata, lsDeltas, lsStates>>]_vars

\* a blob was resolved that has no delta, while the same checksum has one
\* under another kind
C16_Witness ==
    /\ call.op = "GetSubpartForBlob"
    /\ ~HasDelta(lsDeltas, call.arg[1], call.arg[2])
    /\ call.ret = NotPresent
    /\ \E Type \in ResourceTypes : HasDelta(lsDeltas, Type, call.arg[2])

\* the timestamp of a persisted state
StateTimestamp(id) == MetadataFromBytes(lsStates[id]).Timestamp

\* the persisted states no other state is later than
LatestStates ==
    {id \in DOMAIN lsStates :
        \A other \in DOMAIN lsStates : StateTimestamp(other) <= StateTimestamp(id)}

\* C17: UpdateSerialOr gives ls the serial of a persisted state with the
\* greatest timestamp, and the supplied serial only when there is no state;
\* the state Derive returns has the serial of ls.
C17_SerialRule ==
    [][/\ call'.op = "UpdateSerialOr" =>
              IF DOMAIN lsStates = {}
              THEN lsMetadata'.Serial = call'.arg
              ELSE \E id \in LatestStates :
                      lsMetadata'.Serial = MetadataFromBytes(lsStates[id]).Serial
       /\ call'.op = "Derive" => call'.ret.Serial = lsMetadata.Serial]_vars

\* the serial was taken from the later of two states with different
\* timestamps and serials
C17_Witness ==
    /\ call.op = "UpdateSerialOr"
    /\ Cardinality(DOMAIN lsStates) >= 2
    /\ LatestStates # DOMAIN lsStates
    /\ \E id \in LatestStates :
          lsMetadata.Serial = MetadataFromBytes(lsStates[id]).Serial
    /\ \E id \in DOMAIN lsStates \ LatestStates :
          lsMetadata.Serial # MetadataFromBytes(lsStates[id]).Serial
    /\ lsMetadata.Serial # call.arg

\* C18: when PutState fails during Commit, no delta state is persisted for
\* the snapshot and the packfile that was in progress, the one the header
\* blob went to, is not published.
C18_FailedCommitPublishesNothing ==
    result = PutStateError =>
        /\ ~StateCommitted
        /\ <<"SNAPSHOT", snapID>> \notin deltaState

\* the last n bytes of s
LastBytes(s, n) == SubSeq(s, Len(s) - n + 1, Len(s))

\* C19: every packfile PutPackfile writes ends with the version as u32
\* little-endian followed by one byte holding the length of the encoded
\* footer, and the parse from the tail gives the footer and the index that
\* were written.
C19_TrailerParses ==
    /\ call.op = "PutPackfile" =>
          LastBytes(call.ret, 5) =
              PutUint(VERSION, 4)
                \o <<Len(EncodeBuffer(SerializeFooter(PackfileFooter(call.arg))))>>
    /\ call.op = "InfoPackfile" =>
          /\ ~call.ret.err
          /\ call.ret.Footer = <<PackfileFooter(call.arg)>>
          /\ call.ret.Index = PackfileIndex(call.arg, 0)

\* C20: the aborted flag is a latch for the rest of the backup (until a new
\* backup starts with a new context), and a per-file task of the scanner that
\* is started when the flag is set never chunks a file and never writes
\* blobs or entries.
C20_AbortedLatch ==
    [][/\ aborted /\ second' = second => aborted'
       /\ \A p \in FilePaths :
             ftask'[p].late =>
                /\ ftask'[p].pc \notin {"chunk", "finish"}
                /\ ~ftask'[p].chunked]_vars

\* the first error the importer reported on the root path
FirstRootError ==
    scan[CHOOSE i \in DOMAIN scan :
            /\ scan[i].type = "error" /\ IsRootError(scan[i].Pathname)
            /\ \A j \in 1..(i - 1) :
                  ~(scan[j].type = "error" /\ IsRootError(scan[j].Pathname))]

\* C21: the error Backup returns after root-path errors is the first of them,
\* however the dispatch tasks that handle them interleave.
C21_FirstRootErrorReturned ==
    mainPc = "done" /\ result.kind = "error" => result.err = <<FirstRootError.Err>>

\* C22: once the context of the backup is cancelled, no dispatch task of a
\* scan result and no per-file task is started.
C22_NoSpawnAfterCancel ==
    [][ctxDone =>
          /\ dispatch' \subseteq dispatch
          /\ \A p \in FilePaths :
                ftask[p].pc = "idle" => ftask'[p].pc = "idle"]_vars

\* C23: a scan record whose path is inside the directory of the repository is
\* skipped: it gets no scan-cache entry, is never queued for chunking nor
\* handed to a per-file task, so that no blob is submitted for it, and it has
\* no entry in the VFS of the snapshot nor in the VFS cache.
C23_RepositorySkipped ==
    \A p \in Paths :
        HasPrefix(p, repoLocation \o <<47>>) /\ src[p].st \in {"dir", "file"} =>
            /\ p \notin DOMAIN scDirs \cup DOMAIN scFiles \cup DOMAIN scSummaries
            /\ \A i \in DOMAIN filesChannel : filesChannel[i] # p
            /\ held # <<p>>
            /\ p \in FilePaths => ftask[p] = IdleTask
            /\ p \notin DOMAIN fileidx
            /\ p \notin DOMAIN vfsFilenames

\* a committed snapshot of a tree that holds the repository in /a/b: the file
\* /a/b/x was passed over and the file /a/c is in the snapshot
C23_Witness ==
    /\ repoLocation = PAB
    /\ mainPc = "done"
    /\ result.kind = "ok"
    /\ src[PABX].st = "file"
    /\ PAC \in DOMAIN fileidx
    /\ PAB \in DOMAIN fileidx

\* the scan result i has been read by the importer loop and no dispatch
\* goroutine is handling it
Handled(i) == i < scanPos /\ i \notin dispatch

\* C27: a scan result whose pathname matches an exclusion pattern is ignored:
\* it gets no entry in the scan cache, the VFS or the VFS cache, no per-file
\* task, no error item, and it does not abort the backup; the path "/" is
\* never excluded, whatever the patterns.
C27_ExcludedIgnored ==
    /\ \A i \in DOMAIN scan :
          LET p == scan[i].Pathname IN
          p # <<47>> /\ (\E e \in excludes : Match(e, p)) =>
              /\ i \notin dispatch
              /\ p \notin DOMAIN scDirs \cup DOMAIN scFiles
              /\ p \notin DOMAIN fileidx \cup DOMAIN vfsFilenames
              /\ p \in FilePaths => ftask[p] = IdleTask
              /\ p \notin erridx
              /\ (aborted => \E j \in DOMAIN scan : j # i /\ scan[j].type = "error"
                                                   /\ IsRootError(scan[j].Pathname))
    /\ \A i \in DOMAIN scan :
          scan[i].Pathname = <<47>> /\ Handled(i) =>
              IF scan[i].type = "error" THEN aborted ELSE <<47>> \in DOMAIN scDirs

\* a committed snapshot made with the pattern "*": the directories and the
\* file below the root and the error on /a/b/x were passed over, "/" alone is
\* in the snapshot
C27_Witness ==
    /\ excludes = {<<42>>}
    /\ mainPc = "done"
    /\ result.kind = "ok"
    /\ src[PABX].st = "err"
    /\ src[PAC].st = "file"
    /\ erridx = {}
    /\ DOMAIN fileidx = {PRoot}

\* the object reference of the entry of p in the map m is unset
NoObjectIn(m, p) == p \in DOMAIN m => m[p].Object = <<>>

\* C24: a record that is neither a regular file nor a directory, such as a
\* symbolic link, gets a VFS entry without an object: it is never chunked, no
\* CHUNK or OBJECT blob is submitted for it, and the object reference of its
\* entry is unset.
C24_SymlinkHasNoObject ==
    /\ \A p \in FilePaths :
          src[p].st = "symlink" =>
              /\ ftask[p].pc # "chunk"
              /\ ~ftask[p].chunked
              /\ ftask[p].object = <<>> /\ ftask[p].sent = <<>>
              /\ NoObjectIn(scFiles, p) /\ NoObjectIn(fileidx, p)
              /\ NoObjectIn(vfsFilenames, p)
              /\ ftask[p].pc = "done" => p \in DOMAIN scFiles
    /\ (\A p \in FilePaths : src[p].st = "symlink") =>
          \A k \in DOMAIN puts : k[1] \notin {"CHUNK", "OBJECT"}

\* a committed snapshot with the entry of a symbolic link, without object,
\* and the entry of a regular file with its object
C24_Witness ==
    /\ mainPc = "done"
    /\ result.kind = "ok"
    /\ src[PABX].st = "symlink"
    /\ PABX \in DOMAIN fileidx /\ fileidx[PABX].Object = <<>>
    /\ PAC \in DOMAIN fileidx /\ fileidx[PAC].Object # <<>>

\* the formats of msgpack, json, json+gz, in that order, that decode buffer
Decoding(buffer) ==
    SelectSeq(<<"msgpack", "json", "json+gz">>,
              LAMBDA f : ~DecodeConfiguration(buffer, f).err)

\* C25: autodetection tries msgpack, json, json+gz in that order and gives
\* the configuration of the first of them that decodes the buffer; when none
\* does, InitFromBytes returns an error and leaves its receiver unchanged.
C25_AutodetectFirstFormat ==
    [][call'.op = "InitFromBytes" /\ call'.arg.format = "auto" =>
          LET buffer == call'.arg.buffer
              d      == Decoding(buffer)
          IN IF d = <<>>
             THEN /\ call'.ret.kind = "error"
                  /\ call'.ret.tried = <<"msgpack", "json", "json+gz">>
                  /\ config' = config
             ELSE /\ call'.ret.kind # "error"
                  /\ call'.ret.tried[Len(call'.ret.tried)] = d[1]
                  /\ \A i \in DOMAIN call'.ret.tried :
                        call'.ret.tried[i] = <<"msgpack", "json", "json+gz">>[i]
                  /\ LET c == DecodeConfiguration(buffer, d[1]).config
                     IN c # <<>> => config' = c[1]]_vars

\* autodetection has decoded a deflated json buffer, after msgpack and json
\* failed on it, and the receiver holds its configuration
C25_Witness ==
    /\ call.op = "InitFromBytes"
    /\ call.arg.format = "auto"
    /\ call.arg.buffer = Deflate(JsonMarshal([RepositoryID |-> 2]))
    /\ call.ret = [kind |-> "ok", tried |-> <<"msgpack", "json", "json+gz">>]
    /\ config = [RepositoryID |-> 2]

\* the digits 0-9 and a-f
LowerHexDigits == (48..57) \cup (97..102)

\* the value of a lower case hex digit
LowerHexValue(c) == IF c <= 57 THEN c - 48 ELSE c - 87

\* data is the quoted lower case hex string, two digits a byte, of m
IsHexFormOf(data, m) ==
    /\ Len(data) = 2 * Len(m) + 2
    /\ data[1] = 34 /\ data[Len(data)] = 34
    /\ \A i \in DOMAIN m :
          /\ data[2 * i] \in LowerHexDigits /\ data[2 * i + 1] \in LowerHexDigits
          /\ m[i] = 16 * LowerHexValue(data[2 * i]) + LowerHexValue(data[2 * i + 1])

\* C26: the JSON form of an identifier is its lower case hex string, of two
\* digits a byte; unmarshalling what was marshalled gives the identifier
\* back; a document whose string does not decode to an identifier of the
\* full length is an error and leaves the target unchanged.
C26_MACJSONRoundTrip ==
    [][/\ call'.op = "MarshalJSON" => IsHexFormOf(call'.ret, call'.arg)
       /\ call'.op = "UnmarshalJSON" =>
             /\ call.op = "MarshalJSON" /\ call'.arg = call.ret =>
                   ~call'.ret /\ checksum' = call.arg
             /\ call'.arg \in BrokenValues => call'.ret /\ checksum' = checksum]_vars

\* an identifier with digits of both kinds came back from its JSON form into
\* a target that held another identifier
C26_Witness ==
    /\ call.op = "UnmarshalJSON"
    /\ ~call.ret
    /\ call.arg = MarshalJSON(<<171, 10>> \o [i \in 1..(ChecksumSize - 2) |-> 255])
    /\ checksum = <<171, 10>> \o [i \in 1..(ChecksumSize - 2) |-> 255]

\* the verification of the signature, where it is asked for, and the check
\* of the snapshot both succeeded
Succeeded(snap, noVerify) ==
    /\ snap.open
    /\ noVerify \/ ~snap.signed \/ snap.verify = "ok"
    /\ snap.check = "ok"

\* C28: the check command examines every requested snapshot, whatever
\* happened with the ones before; it ends with status 1 when the signature
\* verification or the check of at least one snapshot did not succeed, and
\* with status 0 only when all of them succeeded.
C28_CheckExaminesAll ==
    check.status \notin {"none", "running"} =>
        /\ check.examined = Len(check.Snapshots)
        /\ check.status = "0" <=>
              \A i \in DOMAIN check.Snapshots :
                  Succeeded(check.Snapshots[i], check.NoVerify)
        /\ check.status = "1" <=>
              \E i \in DOMAIN check.Snapshots :
                  ~Succeeded(check.Snapshots[i], check.NoVerify)

\* the delta entries a LocalState holds
StoredDeltas == {DeltaEntryFromBytes(lsDeltas[k]) : k \in DOMAIN lsDeltas}

\* the elements of a sequence
Range(s) == {s[i] : i \in DOMAIN s}

\* C29: iteration of the delta entries by kind is exact: ListObjectsOfType(t)
\* yields every entry stored under kind t and no entry stored under another
\* kind, and ListSnapshots yields the blobs of exactly the entries stored
\* under the SNAPSHOT kind.
C29_IterationByKindExact ==
    /\ call.op = "ListObjectsOfType" =>
          Range(call.ret) = {de \in StoredDeltas : de.Type = call.arg}
    /\ call.op = "ListSnapshots" =>
          Range(call.ret) = {de.Blob : de \in {d \in StoredDeltas : d.Type = RT_SNAPSHOT}}
\* the keys SortHeaders supports
SupportedKeys == {"CreationTime", "SnapshotID", "FilesCount", "Hostname"}

\* the sign of the difference of two integers
Sign(a, b) == IF a < b THEN -1 ELSE IF a > b THEN 1 ELSE 0

\* two headers compared on one field
CompareField(name, a, b) ==
    IF name = "CreationTime" THEN Sign(a.CreationTime, b.CreationTime)
    ELSE IF name = "FilesCount" THEN Sign(a.FilesCount, b.FilesCount)
    ELSE IF name = "SnapshotID" THEN Compare(a.SnapshotID, b.SnapshotID)
    ELSE Compare(a.Hostname, b.Hostname)

RECURSIVE CompareByKeys(_, _, _)
\* two headers compared by the keys in sequence, a later key deciding only
\* when the earlier ones tie
CompareByKeys(keys, a, b) ==
    IF keys = <<>> THEN 0
    ELSE LET f == CompareField(Head(keys).name, a, b)
             d == IF Head(keys).desc THEN 0 - f ELSE f
         IN IF d # 0 THEN d ELSE CompareByKeys(Tail(keys), a, b)

\* hs is baseHeaders reordered
IsPermutation(hs) ==
    \E order \in Orders(DOMAIN baseHeaders) :
        hs = [i \in DOMAIN order |-> baseHeaders[order[i]]]

\* C30: SortHeaders leaves the headers as a permutation sorted by the keys
\* in sequence, ascending for a plain key and descending for a key with
\* the '-' prefix, and returns "invalid sort key: K" for a key K that is
\* not supported.
C30_SortHeadersSorts ==
    call.op = "SortHeaders" =>
        IF \A i \in DOMAIN call.arg : call.arg[i].name \in SupportedKeys
        THEN /\ call.ret.err = <<>>
             /\ IsPermutation(call.ret.headers)
             /\ \A i, j \in DOMAIN call.ret.headers :
                   i < j => CompareByKeys(call.arg, call.ret.headers[i],
                                          call.ret.headers[j]) <= 0
        ELSE \E i \in DOMAIN call.arg :
                /\ call.arg[i].name \notin SupportedKeys
                /\ call.ret.err = InvalidSortKey(call.arg[i].name)
\* C31: a delta entry or a packfile record names only a packfile that was
\* successfully written to the storage, and a call of PutPackfile whose
\* write failed returns an error and records neither a delta entry nor a
\* packfile record.
C31_DeltaAfterWrite ==
    [][/\ \A d \in store'.deltas : d.Location.Packfile \in store'.packfiles
       /\ store'.records \subseteq store'.packfiles
       /\ ~store'.written =>
             /\ store'.deltas = store.deltas
             /\ store'.records = store.records
       /\ store.pc = "write" /\ ~store'.written =>
             /\ store'.pc = "done"
             /\ store'.err # <<>>]_vars

\* a call whose write failed is about to return its error, after another
\* call that wrote its packfile and recorded its delta entries
C31_Witness ==
    /\ store.pc = "done"
    /\ ~store.written
    /\ store.err # <<>>
    /\ store.mac \notin store.packfiles
    /\ store.deltas # {}
    /\ store.records # {}
\* the records of the stream that the importer goroutine hands on
HandedOn(Lmode) ==
    {scan[i].Pathname : i \in {j \in DOMAIN scan :
        /\ scan[j].type = "record"
        /\ scan[j].FileInfo.Lmode = Lmode
        /\ ~skipExcludedPathname(scan[j])
        /\ ~InRepository(scan[j].Pathname)}}

\* C32: the roll-up starts only after the scanner has completed: while the
\* directories are rolled up the importer goroutine has finished and closed
\* the files channel, no dispatch task and no per-file task is running, and
\* the directory and file entries of the scan cache are complete: they no
\* longer change, and in a backup that was not aborted every directory the
\* importer reported has its entry and every file its entry or its error.
C32_RollupAfterScanner ==
    [][mainPc' = "rollup" =>
          /\ impPc' = "done"
          /\ chanClosed'
          /\ filesChannel' = <<>>
          /\ dispatch' = {}
          /\ \A p \in FilePaths : ftask'[p].pc \in {"idle", "done"}
          /\ mainPc = "rollup" =>
                /\ DOMAIN scDirs' = DOMAIN scDirs
                /\ scFiles' = scFiles
                /\ erridx' = erridx
          /\ ~aborted' =>
                /\ HandedOn("dir") \subseteq DOMAIN scDirs'
                /\ HandedOn("regular") \subseteq DOMAIN scFiles' \cup erridx']_vars

\* the first directory is rolled up in a backup of two files below two
\* directories
C32_Witness ==
    /\ mainPc = "rollup"
    /\ DOMAIN scSummaries # {}
    /\ ~aborted
    /\ Cardinality(DOMAIN scFiles) >= 2
    /\ Cardinality(DOMAIN scDirs) >= 3
\* the number of times "/" is still to be rolled up
RootQueued == Cardinality({i \in DOMAIN dirQueue : dirQueue[i] = PRoot})

\* C33: a backup that was not aborted builds the header from the summary
\* captured from the one rolled-up entry "/": Backup never dereferences a
\* missing root summary, never meets "/" a second time, and at the header
\* the root summary is the summary stored for "/".
C33_RootSummaryOnce ==
    /\ result.kind # "panic"
    /\ mainPc = "rollup" => RootQueued + Len(rootSummary) <= 1
    /\ mainPc = "commit" =>
          /\ rootSummary = <<scSummaries[PRoot]>>
          /\ PRoot \in DOMAIN rollSeen

\* the header is built in a backup of files below directories
C33_Witness ==
    /\ mainPc = "commit"
    /\ ~aborted
    /\ rootSummary # <<>>
    /\ Cardinality(DOMAIN scSummaries) >= 3
    /\ erridx # {}

(***************************************************************************)
(* The pipeline of importerJob and the scanner loop on a directory of many *)
(* files                                                                   *)
(***************************************************************************)
\* /a with the files /a/b/x, /a/c, /a/d, /a/e and /a/f
ManyFilesTree ==
    [p \in Paths \cup ExtraFilePaths |-> IF p \in DirPaths THEN Dir ELSE File(<<>>)]

\* options.MaxConcurrency is any value from 1 on
InitPipeline ==
    /\ InitBackupWith({ManyFilesTree}, 1..MaxConcurrency)
    /\ InitLib

\* a step of a goroutine of the backup: of the importer, of a dispatch task,
\* of Backup itself or of a per-file task
PipelineStep ==
    \/ ImporterRecv
    \/ ImporterSpawn
    \/ \E i \in dispatch : DispatchTask(i)
    \/ ImporterClose
    \/ ScannerRecv
    \/ ScannerSpawn
    \/ ScannerWait
    \/ \E p \in TaskPaths : FileLookup(p)
    \/ \E p \in TaskPaths : FileChunk(p)
    \/ \E p \in TaskPaths : FileFinish(p)
    \/ PersistErrors
    \/ RollupDir
    \/ PersistIndexes
    \/ PutPackfile
    \/ Commit

NextPipeline ==
    \/ PipelineStep
    \/ Cancel

\* one backup of the directory of many files, under every max_concurrency
SpecPipeline == InitPipeline /\ [][NextPipeline]_vars

\* C34: the importer/scanner pipeline never deadlocks: as long as Backup has
\* not returned, some goroutine of the backup (the importer, a dispatch
\* task, Backup itself or a per-file task) can take a step, whatever the
\* stream of scan results, max_concurrency and the interleaving.
C34_PipelineNeverStuck == mainPc # "done" => ENABLED PipelineStep


\* C35: when Backup has returned, for whatever reason, no dispatch task and
\* no per-file task it spawned is still running, and from then on nothing is
\* written to the scan cache, to the VFS cache or to the packer.
C35_NoTaskAfterReturn ==
    [][mainPc' = "done" =>
          /\ dispatch' = {}
          /\ RunningFileTasks' = {}
          /\ mainPc = "done" =>
                /\ scVars' = scVars /\ erridx' = erridx
                /\ vfsVars' = vfsVars
                /\ packVars' = packVars]_vars


\* C36: InsertState is atomic with respect to failure: a call that returns
\* an error leaves the delta entries, the metadata and the recorded states
\* as they were; and a call for a stateID already recorded changes nothing.
C36_InsertStateAtomic ==
    [][/\ call'.op = "InsertState"
       /\ call'.ret.err \/ ~call'.ret.merged
       => /\ lsDeltas' = lsDeltas
          /\ lsMetadata' = lsMetadata
          /\ lsStates' = lsStates]_vars


(***************************************************************************)
(* The agent: a command sent by Client.SendCommand and served by the       *)
(* connection goroutine of Agent.ListenAndServe                            *)
(***************************************************************************)
\* the most stdout/stderr writes of a handler
MaxOutput == 2

\* fmt.Sprintf("%v", err): "<nil>" for the nil error, else its message
SprintfV(err) == IF err = <<>> THEN "<nil>" ELSE err[1]

\* fmt.Errorf("%s", msg): an error whose message is msg
Errorf(msg) == <<msg>>

\* the variables a step of the agent protocol leaves alone
rpcOthers == <<backupVars, lsVars, packer, call, config, checksum, check, store,
              agent, cli>>

\* SendCommand: the request is encoded onto the connection, or the encoder
\* fails
SendCommandEncode ==
    /\ rpc.client = "idle"
    /\ \E ok \in BOOLEAN :
          rpc' = IF ok
                 THEN [rpc EXCEPT !.client = "decode", !.request = TRUE]
                 ELSE [rpc EXCEPT !.client = "done",
                                  !.ret = [code |-> 1,
                                           err |-> Errorf("failed to encode command")]]
    /\ UNCHANGED rpcOthers

\* the connection goroutine decodes the request and opens the storage and
\* the repository; when one of them fails it returns, which closes the
\* connection
ServeRequest ==
    /\ rpc.server = "idle"
    /\ rpc.request
    /\ \E opened \in BOOLEAN :
          rpc' = IF opened
                 THEN [rpc EXCEPT !.server = "handler"]
                 ELSE [rpc EXCEPT !.server = "failed", !.closed = TRUE]
    /\ UNCHANGED rpcOthers

\* processStdout, processStderr: a write of the handler becomes a packet,
\* unless an earlier encoding failed
HandlerWrite ==
    /\ rpc.server = "handler"
    /\ rpc.writes < MaxOutput
    /\ \E Type \in {"stdout", "stderr"}, ok \in BOOLEAN :
          LET response == [Type |-> Type, Output |-> rpc.writes + 1,
                           ExitCode |-> 0, Err |-> ""]
          IN rpc' = IF rpc.encodingErrorOccurred
                    THEN [rpc EXCEPT !.writes = @ + 1]
                    ELSE IF ok
                    THEN [rpc EXCEPT !.writes = @ + 1,
                                     !.conn = Append(@, response),
                                     !.sent = Append(@, response)]
                    ELSE [rpc EXCEPT !.writes = @ + 1,
                                     !.encodingErrorOccurred = TRUE]
    /\ UNCHANGED rpcOthers

\* status, err := handler(...); the exit packet is encoded and the
\* goroutine returns, which closes the connection
HandlerReturn ==
    /\ rpc.server = "handler"
    /\ \E status \in {0, 1}, err \in {<<>>, <<"failed">>} :
          rpc' = [rpc EXCEPT
                     !.server = "returned",
                     !.status = status,
                     !.err = err,
                     !.conn = Append(@, [Type |-> "exit", Output |-> 0,
                                         ExitCode |-> status,
                                         Err |-> SprintfV(err)]),
                     !.closed = TRUE]
    /\ UNCHANGED rpcOthers

\* the error SendCommand returns with the exit code
ExitError(response) == Errorf(response.Err)

\* SendCommand: the next packet is decoded; stdout and stderr are printed,
\* exit makes SendCommand return
SendCommandDecode ==
    /\ rpc.client = "decode"
    /\ rpc.conn # <<>>
    /\ LET response == Head(rpc.conn) IN
       rpc' = IF response.Type = "exit"
              THEN [rpc EXCEPT !.client = "done",
                               !.conn = Tail(@),
                               !.ret = [code |-> response.ExitCode,
                                        err |-> ExitError(response)]]
              ELSE [rpc EXCEPT !.conn = Tail(@),
                               !.relayed = Append(@, response)]
    /\ UNCHANGED rpcOthers

\* SendCommand: the decoder fails at the end of a closed connection
SendCommandEOF ==
    /\ rpc.client = "decode"
    /\ rpc.conn = <<>>
    /\ rpc.closed
    /\ rpc' = [rpc EXCEPT !.client = "done",
                          !.ret = [code |-> 1,
                                   err |-> Errorf("failed to decode response")]]
    /\ UNCHANGED rpcOthers

NextCommand ==
    \/ SendCommandEncode
    \/ ServeRequest
    \/ HandlerWrite
    \/ HandlerReturn
    \/ SendCommandDecode
    \/ SendCommandEOF

\* one command sent to the agent
SpecCommand == InitState /\ [][NextCommand]_vars

\* C37: SendCommand returns the outcome of the handler: the exit code of
\* the exit packet, with a nil error exactly when the handler returned a nil
\* error, after every stdout/stderr packet before the exit packet was relayed.
C37_SendCommandOutcome ==
    rpc.client = "done" /\ rpc.server = "returned" =>
        /\ rpc.ret.code = rpc.status
        /\ rpc.ret.err = <<>> <=> rpc.err = <<>>
        /\ rpc.relayed = rpc.sent


(***************************************************************************)
(* The agent: the accept loop of ListenAndServe, the connection goroutines *)
(* and Shutdown                                                            *)
(***************************************************************************)
\* the most connections clients make
MaxConns == 2

\* the variables a step of the agent leaves alone
agentOthers == <<backupVars, lsVars, packer, call, config, checksum, check, store,
                rpc, cli>>

\* d.wg: the connection goroutines added and not yet done
WaitGroup == agent.started - agent.completed

\* ListenAndServe, the select at the top of the loop: d.cancelCtx is never
\* cancelled, the loop goes on to Accept
LoopSelect ==
    /\ agent.loop = "select"
    /\ agent' = [agent EXCEPT !.loop = "accept"]
    /\ UNCHANGED agentOthers

\* d.listener.Accept(): the field is read; a call on the nil interface
\* panics, a call on a listener blocks in Accept
LoopAccept ==
    /\ agent.loop = "accept"
    /\ agent' = [agent EXCEPT
                    !.loop = IF agent.listener = "nil" THEN "panic" ELSE "accepting"]
    /\ UNCHANGED agentOthers

\* Accept returns: a connection of a client while the listener is open, the
\* error "use of closed network connection" once it is closed, on which
\* ListenAndServe returns nil
LoopAccepted ==
    /\ agent.loop = "accepting"
    /\ IF agent.open
       THEN /\ agent.accepted < MaxConns
            /\ agent' = [agent EXCEPT !.loop = "add", !.accepted = @ + 1]
       ELSE agent' = [agent EXCEPT !.loop = "returned"]
    /\ UNCHANGED agentOthers

\* d.wg.Add(1); go func(_conn)
LoopSpawn ==
    /\ agent.loop = "add"
    /\ agent' = [agent EXCEPT !.loop = "select", !.started = @ + 1]
    /\ UNCHANGED agentOthers

\* a connection goroutine returns: d.wg.Done()
ConnDone ==
    /\ WaitGroup > 0
    /\ agent' = [agent EXCEPT !.completed = @ + 1]
    /\ UNCHANGED agentOthers

\* Shutdown: d.listener.Close() under the mutex, which may fail
ShutdownClose ==
    /\ agent.shutdown = "idle"
    /\ \E ok \in BOOLEAN :
          agent' = IF ok
                   THEN [agent EXCEPT !.shutdown = "closed", !.open = FALSE]
                   ELSE [agent EXCEPT !.shutdown = "returned",
                                      !.ret = <<"failed to close listener">>]
    /\ UNCHANGED agentOthers

\* Shutdown: d.listener = nil
ShutdownClear ==
    /\ agent.shutdown = "closed"
    /\ agent' = [agent EXCEPT !.shutdown = "wait", !.listener = "nil"]
    /\ UNCHANGED agentOthers

\* d.wg.Wait() returns
WaitDone == WaitGroup = 0

\* Shutdown: the select on done and ctx.Done()
ShutdownWait ==
    /\ agent.shutdown = "wait"
    /\ \/ /\ WaitDone
          /\ agent' = [agent EXCEPT !.shutdown = "remove"]
       \/ agent' = [agent EXCEPT !.shutdown = "returned",
                                 !.ret = <<"context deadline exceeded">>]
    /\ UNCHANGED agentOthers

\* Shutdown: return d.Close(), which removes the socket file
ShutdownRemove ==
    /\ agent.shutdown = "remove"
    /\ \E ok \in BOOLEAN :
          agent' = IF ok
                   THEN [agent EXCEPT !.shutdown = "returned", !.socket = FALSE]
                   ELSE [agent EXCEPT !.shutdown = "returned",
                                      !.ret = <<"remove failed">>]
    /\ UNCHANGED agentOthers

NextAgent ==
    \/ LoopSelect
    \/ LoopAccept
    \/ LoopAccepted
    \/ LoopSpawn
    \/ ConnDone
    \/ ShutdownClose
    \/ ShutdownClear
    \/ ShutdownWait
    \/ ShutdownRemove

\* an agent serving connections and shut down at any moment
SpecAgent == InitState /\ [][NextAgent]_vars

\* C38: the shutdown of the agent is graceful under every interleaving with
\* the accept loop: when Shutdown has returned nil, every accepted connection
\* has had its handler run to completion and the socket file is removed; and
\* ListenAndServe never calls Accept on the nil listener.
C38_ShutdownGraceful ==
    /\ agent.loop # "panic"
    /\ agent.shutdown = "returned" /\ agent.ret = <<>> =>
          /\ agent.completed = agent.accepted
          /\ ~agent.socket


\* min(a, n) for a uint32 a and a length n
Min32(a, n) == IF a.hi > 0 \/ a.lo > n THEN n ELSE a.lo

\* C39: the pagination is total over the 32-bit parameters: for every offset
\* and limit the handler returns headers[min(offset, n) .. min(offset+limit,
\* n)) of the sorted list, all the remaining headers when limit is 0, with
\* Total = n, and the slice expression never panics, also when offset+limit
\* exceeds 2^32-1.
C39_PaginationTotal ==
    call.op = "repositorySnapshots" =>
        LET n     == Len(call.arg.sorted)
            first == Min32(call.arg.offset, n)
            count == IF call.arg.limit = Uint32(0) THEN n
                     ELSE Min32(call.arg.limit, n)
            last  == IF first + count > n THEN n ELSE first + count
        IN /\ ~call.ret.panic
           /\ call.ret.Total = n
           /\ call.ret.Items = SubSeq(call.arg.sorted, first + 1, last)


(***************************************************************************)
(* entryPoint: the passphrase of an encrypted repository and the command   *)
(***************************************************************************)
\* the commands run on an open repository
RepositoryCommands == {"backup", "server"}

\* the passphrases a user can supply, the first being the one of the
\* repository
Passphrases == {<<1>>, <<2>>}

\* the attempts of the passphrase loop
MaxAttempts == 3

\* encryption.DeriveKey(params, passphrase), when it does not fail
DeriveKey(passphrase) == <<"key">> \o passphrase

\* store.Configuration().Encryption.Canary, sealed with the key of the
\* passphrase of the repository
Canary == DeriveKey(<<1>>)

\* Faulty variant of VerifyCanary: every key is accepted.
VerifyCanaryAlways(key) == TRUE

\* encryption.VerifyCanary(key, canary)
VerifyCanary(key) == key = Canary

\* the variables a step of entryPoint leaves alone
entryOthers == <<backupVars, lsVars, packer, call, config, checksum, check, store,
                rpc, agent>>

\* entryPoint up to the opening of the store: the command, whether the
\* repository is encrypted and where the passphrase comes from
EntryOpen ==
    /\ cli.pc = "start"
    /\ \E command \in RepositoryCommands, encrypted \in BOOLEAN,
          source \in {"prompt", "env", "keyfile"}, p \in Passphrases :
          LET skipPassphrase == command = "server" IN
          cli' = [cli EXCEPT
                       !.command = command,
                       !.encrypted = encrypted,
                       !.source = source,
                       !.envPassphrase = IF source = "prompt" THEN <<>> ELSE p,
                       !.skipPassphrase = skipPassphrase,
                       !.pc = IF skipPassphrase \/ ~encrypted THEN "repo"
                              ELSE IF source = "keyfile" THEN "keyfile"
                              ELSE "loop"]
    /\ UNCHANGED entryOthers

\* one turn of the passphrase loop: the passphrase is prompted for or taken
\* from PLAKAR_PASSPHRASE, the key derived and the canary verified
EntryAttempt ==
    /\ cli.pc = "loop"
    /\ IF cli.attempts >= MaxAttempts
       THEN cli' = [cli EXCEPT !.pc = "derived"]
       ELSE \E prompted \in Passphrases \cup {<<>>}, ok \in BOOLEAN :
               IF cli.envPassphrase = <<>> /\ prompted = <<>>
               THEN \* GetPassphrase fails
                    cli' = [cli EXCEPT !.pc = "derived"]
               ELSE LET passphrase == IF cli.envPassphrase = <<>> THEN prompted
                                      ELSE cli.envPassphrase
                        key == DeriveKey(passphrase)
                    IN IF ~ok
                       THEN cli' = [cli EXCEPT !.attempts = @ + 1,
                                                   !.tried = @ + 1]
                       ELSE IF ~VerifyCanary(key)
                       THEN cli' = [cli EXCEPT
                                         !.attempts = @ + 1,
                                         !.tried = @ + 1,
                                         !.pc = IF cli.envPassphrase # <<>>
                                                THEN "derived" ELSE "loop"]
                       ELSE cli' = [cli EXCEPT
                                         !.tried = @ + 1,
                                         !.secret = key,
                                         !.derived = TRUE,
                                         !.verified = (key = Canary),
                                         !.pc = "derived"]
    /\ UNCHANGED entryOthers

\* the key file: the key is derived from its content and verified once
EntryKeyFile ==
    /\ cli.pc = "keyfile"
    /\ \E ok \in BOOLEAN :
          LET key == DeriveKey(cli.envPassphrase) IN
          cli' = IF ok /\ VerifyCanary(key)
                   THEN [cli EXCEPT !.tried = @ + 1,
                                      !.secret = key,
                                      !.derived = TRUE,
                                      !.verified = (key = Canary),
                                      !.pc = "derived"]
                   ELSE [cli EXCEPT !.tried = @ + 1, !.pc = "derived"]
    /\ UNCHANGED entryOthers

\* if !derived { os.Exit(1) }; ctx.SetSecret(secret)
EntryDerived ==
    /\ cli.pc = "derived"
    /\ cli' = IF ~cli.derived
                THEN [cli EXCEPT !.pc = "exited", !.exit = <<1>>]
                ELSE [cli EXCEPT !.pc = "repo", !.installed = cli.secret]
    /\ UNCHANGED entryOthers

\* the repository is opened with the secret and the command executed, or
\* entryPoint returns 1 on an error before the command
EntryExecute ==
    /\ cli.pc = "repo"
    /\ \E ok \in BOOLEAN, status \in {0, 1} :
          cli' = IF ok
                   THEN [cli EXCEPT !.pc = "exited", !.executed = TRUE,
                                      !.exit = <<status>>]
                   ELSE [cli EXCEPT !.pc = "exited", !.exit = <<1>>]
    /\ UNCHANGED entryOthers

NextEntry ==
    \/ EntryOpen
    \/ EntryAttempt
    \/ EntryKeyFile
    \/ EntryDerived
    \/ EntryExecute

\* one run of entryPoint with a command on a repository
SpecEntry == InitState /\ [][NextEntry]_vars

\* what holds of a run on an encrypted repository that names a command in
\* commands: a secret installed and a command executed only after a derived
\* key verified the canary, else exit 1 without the command, after at most
\* MaxAttempts passphrases
VerifiedOrExit(commands) ==
    cli.encrypted /\ cli.command \in commands =>
        /\ cli.installed # <<>> \/ cli.executed => cli.verified
        /\ cli.installed # <<>> => cli.installed = Canary
        /\ cli.pc = "exited" /\ ~cli.verified =>
              /\ cli.exit = <<1>>
              /\ ~cli.executed
        /\ cli.tried <= MaxAttempts

\* C40 as stated: for an encrypted repository a secret is installed and a
\* repository command executed only if a key derived from the supplied
\* passphrase verified the canary of the configuration; otherwise the
\* process exits with status 1 without executing the command, after at most
\* 3 passphrase attempts.
C40_AnyCommandVerified == VerifiedOrExit(RepositoryCommands)

\* C40, amended: the same for every repository command but server, which
\* skips the passphrase: server is executed on an encrypted repository
\* without a secret and without any passphrase attempt.
C40_VerifiedUnlessServer ==
    /\ VerifiedOrExit(RepositoryCommands \ {"server"})
    /\ cli.command = "server" => cli.installed = <<>> /\ cli.tried = 0

C40_Witness ==
    /\ cli.encrypted /\ cli.command = "backup" /\ cli.source = "prompt"
    /\ cli.tried = MaxAttempts /\ cli.attempts = 2
    /\ cli.verified /\ cli.executed /\ cli.installed = Canary

====
